---- MODULE Spec2Model ----
(***************************************************************************)
(* Tree-node lifecycle and array reconciliation of mobx-state-tree.        *)
(*                                                                         *)
(* The heap of Node objects is a record of functions over node ids; every  *)
(* method of the source is an operator from heap to heap.  A thrown error  *)
(* is the heap field "failed": once it is set the remaining steps of the   *)
(* call are skipped, and what was assigned before the throw stays.         *)
(***************************************************************************)
EXTENDS Integers, Sequences, FiniteSets, TLC

\* ---------------------------------------------------------------- bounds
MaxNodeId == 5        \* node ids 2..MaxNodeId may be allocated
MaxAdded == 2         \* longest list of new values of one splice / snapshot
MaxNested == 1        \* longest array snapshot nested in a list of new values
MaxCalls == 2         \* calls made on the trees in one behaviour
MaxDirect == 1        \* longest list of new values of a splice of SpliceAnywhere

\* -------------------------------------------------------------- constants
NoNode == 0           \* null / undefined node reference
Nodes == 2..MaxNodeId

ArrayTypes == {"string[]", "frozen[]", "model[]", "model[][]"}
ScalarTypes == {"string", "frozen"}
AllTypes == ArrayTypes \cup ScalarTypes \cup {"model"}

subType(t) ==
    CASE t = "string[]" -> "string"
      [] t = "frozen[]" -> "frozen"
      [] t = "model[]" -> "model"
      [] t = "model[][]" -> "model[]"
      [] OTHER -> "none"

Strings == {"a", "b"}
FrozenValues == {"f"}
Identifiers == {1, 2}
Names == {"x", "y"}

\* ----------------------------------------------------------------- values
\* A JavaScript value handed to the tree or returned as a snapshot.  All
\* values are records of one shape: k is the kind, s a string payload, n a
\* number payload (identifier, or node id of a live value), items a list.
StrV(s) == [k |-> "str", s |-> s, n |-> 0, items |-> <<>>]
FrzV(s) == [k |-> "frz", s |-> s, n |-> 0, items |-> <<>>]
ObjV(id, name) == [k |-> "obj", s |-> name, n |-> id, items |-> <<>>]
ArrV(xs) == [k |-> "arr", s |-> "", n |-> 0, items |-> xs]
NodeV(node) == [k |-> "node", s |-> "", n |-> node, items |-> <<>>]
Undefined == [k |-> "undefined", s |-> "", n |-> 0, items |-> <<>>]

SeqsUpTo(S, len) == UNION {[1..l -> S] : l \in 0..len}

\* '' + index and parseInt(subpath, 10)
IndexStrings == <<"0", "1", "2", "3", "4", "5", "6", "7", "8", "9">>
ToStr(i) == IndexStrings[i + 1]
IsIndex(str) == str = "-1" \/ \E i \in 1..Len(IndexStrings) : IndexStrings[i] = str
ParseInt(str) ==
    IF str = "-1" THEN -1
    ELSE CHOOSE i \in 0..(Len(IndexStrings) - 1) : IndexStrings[i + 1] = str

\* ------------------------------------------------------------------ state
VARIABLES
    nextNodeId,           \* let nextNodeId
    type,                 \* node.type (name of the type descriptor)
    parent,               \* node._parent
    subpath,              \* node.subpath
    isAlive,              \* node._isAlive
    isDetaching,          \* node._isDetaching
    isProtectionEnabled,  \* node.isProtectionEnabled
    environment,          \* node._environment (TRUE: an environment object)
    isRunningAction,      \* node._isRunningAction
    storedItems,          \* node.storedValue of an array node: its child nodes
    storedScalar,         \* node.storedValue of a scalar / frozen node; name of a model
    storedId,             \* node.storedValue[identifierAttribute] of a model
    snapshotProp,         \* the snapshot stored by finalizeDeath (k = "none": still computed)
    identifierCache,      \* node.identifierCache: [defined, entries]
    patchSubscribers,     \* node.patchSubscribers is not empty
    snapshotSubscribers,  \* node.snapshotSubscribers is not empty
    disposed,             \* node.disposers have run (the snapshot reaction among them)
    patches,              \* what the last call emitted to subscribers, in order
    hooks,                \* the lifecycle steps the last call ran, in order
    lastOp,               \* the last call made on the tree and how it ended
    calls                 \* the number of calls made so far

vars == <<nextNodeId, type, parent, subpath, isAlive, isDetaching, isProtectionEnabled,
          environment, isRunningAction, storedItems, storedScalar, storedId,
          snapshotProp, identifierCache, patchSubscribers, snapshotSubscribers,
          disposed, patches, hooks, lastOp, calls>>

NoSnapshot == [k |-> "none", s |-> "", n |-> 0, items |-> <<>>]
NoCache == [defined |-> FALSE, entries |-> {}]

\* The heap the operators below transform.
Heap ==
    [nextNodeId |-> nextNodeId, type |-> type, parent |-> parent, subpath |-> subpath,
     isAlive |-> isAlive, isDetaching |-> isDetaching,
     isProtectionEnabled |-> isProtectionEnabled, environment |-> environment,
     isRunningAction |-> isRunningAction, storedItems |-> storedItems,
     storedScalar |-> storedScalar, storedId |-> storedId, snapshotProp |-> snapshotProp,
     identifierCache |-> identifierCache, patchSubscribers |-> patchSubscribers,
     snapshotSubscribers |-> snapshotSubscribers,
     disposed |-> disposed, patches |-> <<>>, hooks |-> <<>>, mutation |-> 0,
     failed |-> FALSE, overflow |-> FALSE, ret |-> NoNode, res |-> <<>>]

Fail(h) == [h EXCEPT !.failed = TRUE]

Exists(h, n) == n \in Nodes /\ n <= h.nextNodeId

\* isStateTreeNode(node.storedValue): createNode attaches $treenode only to a
\* mutable object, so never to a primitive or a frozen value.
isStateTreeNode(h, n) == h.type[n] \in ArrayTypes \cup {"model"}

identifierAttribute(h, n) == IF h.type[n] = "model" THEN "id" ELSE ""

isRoot(h, n) == h.parent[n] = NoNode

RECURSIVE rootFrom(_, _, _)
rootFrom(h, n, fuel) ==
    IF h.parent[n] = NoNode \/ fuel = 0 THEN n ELSE rootFrom(h, h.parent[n], fuel - 1)

root(h, n) == rootFrom(h, n, MaxNodeId)

\* the ancestors of n, n included
RECURSIVE ancestorsFrom(_, _, _)
ancestorsFrom(h, n, fuel) ==
    IF h.parent[n] = NoNode \/ fuel = 0 THEN {n}
    ELSE {n} \cup ancestorsFrom(h, h.parent[n], fuel - 1)

Ancestors(h, n) == ancestorsFrom(h, n, MaxNodeId)

\* node.path, as the list of its segments
RECURSIVE pathFrom(_, _, _)
pathFrom(h, n, fuel) ==
    IF h.parent[n] = NoNode \/ fuel = 0 THEN <<>>
    ELSE Append(pathFrom(h, h.parent[n], fuel - 1), h.subpath[n])

path(h, n) == pathFrom(h, n, MaxNodeId)

RECURSIVE isRunningActionFrom(_, _, _)
isRunningActionFrom(h, n, fuel) ==
    IF h.isRunningAction[n] THEN TRUE
    ELSE IF h.parent[n] = NoNode \/ fuel = 0 THEN FALSE
    ELSE isRunningActionFrom(h, h.parent[n], fuel - 1)

nodeIsRunningAction(h, n) == isRunningActionFrom(h, n, MaxNodeId)

isProtected(h, n) == h.isProtectionEnabled[root(h, n)]

\* assertAlive without its check
assertAliveUnchecked(h, n) == h

assertAlive(h, n) == IF h.isAlive[n] THEN h ELSE Fail(h)

assertWritable(h, n) ==
    IF assertAlive(h, n).failed THEN Fail(h)
    ELSE IF ~nodeIsRunningAction(h, n) /\ isProtected(h, n) THEN Fail(h)
    ELSE h

\* type.getChildren(node): the array's values; a model of this development
\* holds its fields itself and has no child nodes.
getChildren(h, n) == IF h.type[n] \in ArrayTypes THEN h.storedItems[n] ELSE <<>>

\* node.snapshot: the stored last snapshot of a node that died through
\* finalizeDeath, undefined for a node that is dead otherwise, else
\* type.getSnapshot(node).
RECURSIVE snapshot(_, _, _)
snapshot(h, n, fuel) ==
    IF h.snapshotProp[n].k # "none" THEN h.snapshotProp[n]
    ELSE IF ~h.isAlive[n] THEN Undefined
    ELSE IF h.type[n] \in ArrayTypes
      THEN IF fuel = 0 THEN Undefined
           ELSE ArrV([i \in 1..Len(h.storedItems[n]) |->
                        snapshot(h, h.storedItems[n][i], fuel - 1)])
    ELSE IF h.type[n] = "model" THEN ObjV(h.storedId[n], h.storedScalar[n])
    ELSE IF h.type[n] = "frozen" THEN FrzV(h.storedScalar[n])
    ELSE StrV(h.storedScalar[n])

getSnapshot(h, n) == snapshot(h, n, MaxNodeId)

\* ------------------------------------------------------- identifier cache
identifier(h, n) == IF identifierAttribute(h, n) # "" THEN h.storedId[n] ELSE 0

\* cache.addNodeToCache(node), cache being the one owned by node `owner`
addNodeToCache(h, owner, n) ==
    IF h.failed THEN h
    ELSE IF ~h.identifierCache[owner].defined THEN Fail(h)
    ELSE IF identifierAttribute(h, n) = "" THEN h
    ELSE [h EXCEPT !.identifierCache[owner].entries = @ \cup {n}]

\* cache.notifyDied(node)
notifyDied(h, owner, n) ==
    IF h.failed THEN h
    ELSE IF ~h.identifierCache[owner].defined THEN Fail(h)
    ELSE [h EXCEPT !.identifierCache[owner].entries = @ \ {n}]

\* cache.mergeCache(node): fold node's own cache into this one; a colliding
\* identifier already present from a different live node is a failure.
mergeCache(h, owner, n) ==
    IF h.failed THEN h
    ELSE IF ~h.identifierCache[owner].defined \/ ~h.identifierCache[n].defined THEN Fail(h)
    ELSE IF \E x \in h.identifierCache[n].entries, y \in h.identifierCache[owner].entries :
               /\ x # y
               /\ h.isAlive[y]
               /\ identifierAttribute(h, x) = identifierAttribute(h, y)
               /\ identifier(h, x) = identifier(h, y)
      THEN Fail(h)
    ELSE [h EXCEPT !.identifierCache[owner].entries = @ \cup h.identifierCache[n].entries]

\* cache.splitCache(node): a fresh cache with exactly the entries of node's
\* subtree, which leave this cache; it becomes node.identifierCache.
splitCache(h, owner, n) ==
    IF h.failed THEN h
    ELSE IF ~h.identifierCache[owner].defined THEN Fail(h)
    ELSE [h EXCEPT !.identifierCache[owner].entries = {x \in @ : n \notin Ancestors(h, x)},
                   !.identifierCache[n] =
                       [defined |-> TRUE,
                        entries |-> {x \in h.identifierCache[owner].entries :
                                        n \in Ancestors(h, x)}]]

\* ------------------------------------------------------------------- death
\* a lifecycle step of node n is run
ran(h, step, n) ==
    IF h.failed THEN h ELSE [h EXCEPT !.hooks = Append(@, [step |-> step, node |-> n])]

\* the disposers run, then the beforeDestroy hook
aboutToDie(h, n) ==
    IF h.failed THEN h
    ELSE ran(ran([h EXCEPT !.disposed[n] = TRUE], "disposers", n), "beforeDestroy", n)

\* severDead without the stored last snapshot
severDeadNoSnapshot(h, n) ==
    IF h.failed THEN h
    ELSE [h EXCEPT !.snapshotSubscribers[n] = FALSE,
                   !.patchSubscribers[n] = FALSE,
                   !.isAlive[n] = FALSE,
                   !.parent[n] = NoNode,
                   !.subpath[n] = ""]

\* finalizeDeath after its first line: store the last snapshot, mark dead,
\* cut the parent link
severDead(h, n) ==
    IF h.failed THEN h
    ELSE [h EXCEPT !.snapshotProp[n] = getSnapshot(h, n),
                   !.snapshotSubscribers[n] = FALSE,
                   !.patchSubscribers[n] = FALSE,
                   !.isAlive[n] = FALSE,
                   !.parent[n] = NoNode,
                   !.subpath[n] = ""]

finalizeDeath(h, n) == severDead(notifyDied(ran(h, "finalizeDeath", n), root(h, n), n), n)

processor(h, n, tag) ==
    IF h.failed THEN h
    ELSE IF tag = "aboutToDie" THEN aboutToDie(h, n)
    ELSE finalizeDeath(h, n)

RECURSIVE walk(_, _, _)
RECURSIVE walkChildren(_, _, _, _)

\* walk(thing, processor): children that are tree-node values first, then self
walk(h, n, tag) ==
    IF h.failed THEN h
    ELSE IF ~h.isAlive[n] THEN Fail(h)
    ELSE processor(walkChildren(h, getChildren(h, n), 1, tag), n, tag)

walkChildren(h, kids, i, tag) ==
    IF i > Len(kids) \/ h.failed THEN h
    ELSE IF isStateTreeNode(h, kids[i])
      THEN walkChildren(walk(h, kids[i], tag), kids, i + 1, tag)
    ELSE walkChildren(h, kids, i + 1, tag)

die(h, n) ==
    IF h.failed \/ h.isDetaching[n] THEN h
    ELSE IF isStateTreeNode(h, n) THEN walk(walk(h, n, "aboutToDie"), n, "finalizeDeath")
    ELSE h

\* --------------------------------------------------------------- setParent
\* the last lines of setParent: this._parent = newParent (and afterAttach)
attachTo(h, n, newParent) ==
    IF h.failed THEN h ELSE ran([h EXCEPT !.parent[n] = newParent], "afterAttach", n)

\* setParent without the check that a tree does not contain itself
setParentNoSelfCheck(h, n, newParent, sub) ==
    IF h.failed THEN h
    ELSE IF h.parent[n] = newParent /\ h.subpath[n] = sub THEN h
    ELSE IF h.parent[n] # NoNode /\ newParent # NoNode /\ newParent # h.parent[n] THEN Fail(h)
    ELSE IF h.parent[n] = NoNode /\ h.environment[n] THEN Fail(h)
    ELSE IF h.parent[n] # NoNode /\ newParent = NoNode THEN die(h, n)
    ELSE IF newParent # NoNode /\ newParent # h.parent[n]
      THEN attachTo(mergeCache([h EXCEPT !.subpath[n] = sub], root(h, newParent), n),
                    n, newParent)
    ELSE [h EXCEPT !.subpath[n] = sub]

setParent(h, n, newParent, sub) ==
    IF h.failed THEN h
    ELSE IF h.parent[n] = newParent /\ h.subpath[n] = sub THEN h
    ELSE IF h.parent[n] # NoNode /\ newParent # NoNode /\ newParent # h.parent[n] THEN Fail(h)
    ELSE IF h.parent[n] = NoNode /\ newParent # NoNode /\ root(h, newParent) = n THEN Fail(h)
    ELSE IF h.parent[n] = NoNode /\ h.environment[n] THEN Fail(h)
    ELSE IF h.parent[n] # NoNode /\ newParent = NoNode THEN die(h, n)
    ELSE IF newParent # NoNode /\ newParent # h.parent[n]
      THEN attachTo(mergeCache([h EXCEPT !.subpath[n] = sub], root(h, newParent), n),
                    n, newParent)
    ELSE [h EXCEPT !.subpath[n] = sub]

\* ------------------------------------------------------------- validation
\* type.isValidSnapshot(value): an array wants an array of valid items; a
\* live node is valid where its type is the expected one.
RECURSIVE isValidSnapshot(_, _, _)
isValidSnapshot(h, t, v) ==
    IF v.k = "node" THEN Exists(h, v.n) /\ h.type[v.n] = t
    ELSE IF t \in ArrayTypes
      THEN v.k = "arr" /\ \A i \in 1..Len(v.items) : isValidSnapshot(h, subType(t), v.items[i])
    ELSE IF t = "model" THEN v.k = "obj"
    ELSE IF t = "frozen" THEN v.k = "frz"
    ELSE v.k = "str"

typecheck(h, t, v) == IF h.failed \/ isValidSnapshot(h, t, v) THEN h ELSE Fail(h)

\* isMutable(value): a non-null, non-frozen object
isMutable(v) == v.k \in {"obj", "arr"}

\* source and its ancestors, source first: the nodes emitPatch visits
RECURSIVE emitChain(_, _, _)
emitChain(h, n, fuel) ==
    IF h.parent[n] = NoNode \/ fuel = 0 THEN <<n>>
    ELSE <<n>> \o emitChain(h, h.parent[n], fuel - 1)

\* node.path as the string it is, character by character (an index below
\* ten is one character, a field name counts as one)
RECURSIVE pathString(_, _, _)
pathString(h, n, fuel) ==
    IF h.parent[n] = NoNode \/ fuel = 0 THEN <<>>
    ELSE pathString(h, h.parent[n], fuel - 1) \o <<"/", h.subpath[n]>>

\* the path without the substr: source.path + "/" + patch.path
unlocalizedPath(h, patch, source, this) ==
    pathString(h, source, MaxNodeId) \o <<"/", patch.path>>

\* source.path.substr(this.path.length) + "/" + patch.path
localizedPath(h, patch, source, this) ==
    SubSeq(pathString(h, source, MaxNodeId), Len(pathString(h, this, MaxNodeId)) + 1,
           Len(pathString(h, source, MaxNodeId))) \o <<"/", patch.path>>

\* this.emitPatch(patch, source): the calls made to patch subscribers, those
\* of this first, then those that this.parent.emitPatch makes
RECURSIVE deliver(_, _, _, _, _)
deliver(h, patch, source, this, fuel) ==
    (IF h.patchSubscribers[this]
       THEN <<[receiver |-> this, path |-> localizedPath(h, patch, source, this)]>>
     ELSE <<>>)
    \o (IF h.parent[this] # NoNode /\ fuel > 0
          THEN deliver(h, patch, source, h.parent[this], fuel - 1)
        ELSE <<>>)

\* node.emitPatch(patch, source): the patch is kept with source.path, the
\* chain of nodes it is handed to, as they are when it is emitted, and the
\* calls made to the subscribers
emitPatch(h, patch, source) ==
    IF h.failed THEN h
    ELSE [h EXCEPT !.patches = Append(@, [op |-> patch.op, path |-> patch.path,
                                           value |-> patch.value, source |-> source,
                                           at |-> path(h, source),
                                           up |-> emitChain(h, source, MaxNodeId),
                                           to |-> deliver(h, patch, source, source,
                                                          MaxNodeId),
                                           during |-> h.mutation])]

\* emitSnapshot with every subscriber called twice
emitSnapshotTwice(h, n, v) ==
    IF h.failed \/ ~h.snapshotSubscribers[n] THEN h
    ELSE [h EXCEPT !.patches = @ \o
            <<[op |-> "snapshot", path |-> "", value |-> v, source |-> n,
               at |-> <<>>, up |-> <<>>, to |-> <<>>, during |-> h.mutation],
              [op |-> "snapshot", path |-> "", value |-> v, source |-> n,
               at |-> <<>>, up |-> <<>>, to |-> <<>>, during |-> h.mutation]>>]

\* node.emitSnapshot(snapshot): every snapshot subscriber is called with it
emitSnapshot(h, n, v) ==
    IF h.failed \/ ~h.snapshotSubscribers[n] THEN h
    ELSE [h EXCEPT !.patches = Append(@, [op |-> "snapshot", path |-> "", value |-> v,
                                           source |-> n, at |-> <<>>, up |-> <<>>,
                                           to |-> <<>>, during |-> h.mutation])]

\* node.pseudoAction(fn): the flag is set, fn runs, the flag is put back;
\* nothing puts it back when fn throws
openPseudoAction(h, n) == IF h.failed THEN h ELSE [h EXCEPT !.isRunningAction[n] = TRUE]

closePseudoAction(h, n, inAction) ==
    IF h.failed THEN h ELSE [h EXCEPT !.isRunningAction[n] = inAction]

\* ----------------------------------------- creation and array reconciliation
RECURSIVE createNode(_, _, _, _, _, _)
RECURSIVE instantiate(_, _, _, _, _, _)
RECURSIVE finalizeNewInstance(_, _, _)
RECURSIVE applySnapshot(_, _, _, _)
RECURSIVE arrayApplySnapshot(_, _, _, _)
RECURSIVE spliceWithArray(_, _, _, _, _, _)
RECURSIVE willChangeSplice(_, _, _, _, _)
RECURSIVE reconcileArrayChildren(_, _, _, _, _, _)
RECURSIVE reconcileValues(_, _, _, _, _, _, _)

\* findReconcilationCandidates(snapshot) over oldNodesByIdentifier, which
\* holds for each identifier the last old node that carries it
findReconcilationCandidates(h, oldNodes, v) ==
    IF \E i \in 1..Len(oldNodes) :
          identifierAttribute(h, oldNodes[i]) = "id" /\ v.k = "obj"
          /\ identifier(h, oldNodes[i]) = v.n
    THEN oldNodes[CHOOSE i \in 1..Len(oldNodes) :
            /\ identifierAttribute(h, oldNodes[i]) = "id" /\ v.k = "obj"
            /\ identifier(h, oldNodes[i]) = v.n
            /\ \A j \in (i + 1)..Len(oldNodes) :
                  ~(identifierAttribute(h, oldNodes[j]) = "id"
                    /\ identifier(h, oldNodes[j]) = v.n)]
    ELSE NoNode

\* model.applySnapshot(node, snapshot): the fields are written in place and
\* a replace patch is emitted for a field that changed
modelApplySnapshot(h, n, v, observed) ==
    IF h.failed THEN h
    ELSE IF ~isValidSnapshot(h, "model", v) THEN Fail(h)
    ELSE IF ~h.isAlive[n] THEN Fail(h)
    ELSE IF v.s = h.storedScalar[n] THEN h
    ELSE IF observed
      THEN emitPatch([h EXCEPT !.storedScalar[n] = v.s],
                     [op |-> "replace", path |-> "name", value |-> StrV(v.s)], n)
    ELSE [h EXCEPT !.storedScalar[n] = v.s]

\* childType.reconcile(current, newValue): the candidate takes the new
\* value in place and is returned
typeReconcile(h, childType, current, v) ==
    [modelApplySnapshot(h, current, v, TRUE) EXCEPT !.ret = current]

\* new Node where isProtectionEnabled starts as false
newNodeUnprotected(h, id, t, p, sub, env, v) ==
    [h EXCEPT !.nextNodeId = id,
              !.type[id] = t,
              !.parent[id] = p,
              !.subpath[id] = sub,
              !.environment[id] = env,
              !.isAlive[id] = TRUE,
              !.isProtectionEnabled[id] = FALSE,
              !.storedScalar[id] = IF t \in ArrayTypes THEN "" ELSE v.s,
              !.storedId[id] = IF t = "model" THEN v.n ELSE 0,
              !.identifierCache[id] =
                  IF p = NoNode THEN [defined |-> TRUE, entries |-> {}] ELSE NoCache]

\* new Node(type, parent, subpath, environment, instance), and the cache a
\* root gets
newNode(h, id, t, p, sub, env, v) ==
    [h EXCEPT !.nextNodeId = id,
              !.type[id] = t,
              !.parent[id] = p,
              !.subpath[id] = sub,
              !.environment[id] = env,
              !.isAlive[id] = TRUE,
              !.isProtectionEnabled[id] = TRUE,
              !.storedScalar[id] = IF t \in ArrayTypes THEN "" ELSE v.s,
              !.storedId[id] = IF t = "model" THEN v.n ELSE 0,
              !.identifierCache[id] =
                  IF p = NoNode THEN [defined |-> TRUE, entries |-> {}] ELSE NoCache]

\* the cache registration after finalizeNewInstance
registerNode(h, id, p) ==
    IF h.failed THEN h
    ELSE addNodeToCache(h, IF p # NoNode THEN root(h, p) ELSE id, id)

\* the hooks of createNode where afterAttach does not look at the parent
afterCreateThenAttach(h, id, p) ==
    ran(ran(h, "afterCreate", id), "afterAttach", id)

\* node.fireHook("afterCreate"); if (parent) node.fireHook("afterAttach")
afterCreate(h, id, p) ==
    IF p # NoNode THEN ran(ran(h, "afterCreate", id), "afterAttach", id)
    ELSE ran(h, "afterCreate", id)

\* the end of createNode where the finally block does nothing
sawExceptionIgnored(h, id) ==
    IF h.failed THEN [h EXCEPT !.hooks = Append(@, [step |-> "sawException", node |-> id])]
    ELSE [h EXCEPT !.ret = id]

\* the end of createNode: return the node, or finally { _isAlive = false }
sawException(h, id) ==
    IF h.failed
      THEN [h EXCEPT !.isAlive[id] = FALSE,
                     !.hooks = Append(@, [step |-> "sawException", node |-> id])]
    ELSE [h EXCEPT !.ret = id]

createNode(h, t, p, sub, env, v) ==
    IF h.failed THEN h
    ELSE IF v.k = "node"
      THEN IF ~isRoot(h, v.n) THEN Fail(h)
           ELSE [setParent(h, v.n, p, sub) EXCEPT !.ret = v.n]
    ELSE IF h.nextNodeId + 1 > MaxNodeId THEN [Fail(h) EXCEPT !.overflow = TRUE]
    ELSE sawException(
           afterCreate(
             registerNode(
               closePseudoAction(
                 finalizeNewInstance(
                   openPseudoAction(newNode(h, h.nextNodeId + 1, t, p, sub, env, v),
                                    h.nextNodeId + 1),
                   h.nextNodeId + 1, v),
                 h.nextNodeId + 1, FALSE),
               h.nextNodeId + 1, p),
             h.nextNodeId + 1, p),
           h.nextNodeId + 1)

\* type.instantiate(parent, subpath, environment, snapshot)
instantiate(h, t, p, sub, env, v) == createNode(h, t, p, sub, env, v)

\* ArrayType.finalizeNewInstance applies the initial snapshot before the
\* array is observed; the other types have nothing to finalize
finalizeNewInstance(h, n, v) ==
    IF h.failed THEN h
    ELSE IF h.type[n] \in ArrayTypes THEN applySnapshot(h, n, v, FALSE)
    ELSE h

\* isToBeKilled for a table that is never consulted
isToBeKilledAlways(st, n) == TRUE

\* nodesToBeKilled[childNode.nodeId] is still set
isToBeKilled(st, n) == n \in st.kill

\* res[index] = <a node>, for the node a call returned in h.ret
pushResult(st, h) == [h |-> h, kill |-> st.kill, res |-> Append(st.res, h.ret)]

\* nodesToBeKilled[id] = undefined; node.setParent(parent, subPath); res[index] = node
claim(st, h, claimed, p, subPath) ==
    [h |-> setParent(h, h.ret, p, subPath),
     kill |-> st.kill \ {claimed},
     res |-> Append(st.res, h.ret)]

reconcileValues(st, p, childType, oldNodes, newValues, newPaths, index) ==
    IF index > Len(newValues) \/ st.h.failed THEN st
    ELSE reconcileValues(
           IF newValues[index].k = "node" /\ assertAlive(st.h, newValues[index].n).failed
             THEN [st EXCEPT !.h = Fail(st.h)]
           ELSE IF newValues[index].k = "node" /\ st.h.parent[newValues[index].n] = p
             THEN IF ~isToBeKilled(st, newValues[index].n) THEN [st EXCEPT !.h = Fail(st.h)]
                  ELSE claim(st, [st.h EXCEPT !.ret = newValues[index].n],
                             newValues[index].n, p, ToStr(newPaths[index]))
           ELSE IF /\ newValues[index].k # "node"
                   /\ isMutable(newValues[index])
                   /\ findReconcilationCandidates(st.h, oldNodes, newValues[index]) # NoNode
             THEN claim(st,
                        typeReconcile(st.h, childType,
                            findReconcilationCandidates(st.h, oldNodes, newValues[index]),
                            newValues[index]),
                        findReconcilationCandidates(st.h, oldNodes, newValues[index]),
                        p, ToStr(newPaths[index]))
           ELSE pushResult(st, instantiate(st.h, childType, p, ToStr(newPaths[index]),
                                           FALSE, newValues[index])),
           p, childType, oldNodes, newValues, newPaths, index + 1)

\* nodesToBeKilled[key].die() for every key left, keys in ascending order
RECURSIVE killAll(_, _)
killAll(h, kill) ==
    IF kill = {} \/ h.failed THEN h
    ELSE killAll(die(h, CHOOSE x \in kill : \A y \in kill : x <= y),
                 kill \ {CHOOSE x \in kill : \A y \in kill : x <= y})

\* Kill non reconciled values; return res
killAndReturn(st) == [killAll(st.h, st.kill) EXCEPT !.res = st.res]

reconcileArrayChildren(h, p, childType, oldNodes, newValues, newPaths) ==
    killAndReturn(
        reconcileValues([h |-> h, kill |-> {oldNodes[i] : i \in 1..Len(oldNodes)}, res |-> <<>>],
                        p, childType, oldNodes, newValues, newPaths, 1))

\* update paths of remaining items
RECURSIVE updatePaths(_, _, _, _, _)
updatePaths(h, n, childNodes, i, delta) ==
    IF i > Len(childNodes) \/ h.failed THEN h
    ELSE updatePaths(setParent(h, childNodes[i], n, ToStr((i - 1) + delta)),
                     n, childNodes, i + 1, delta)

\* ArrayType.willChange, case 'splice'; index is 0-based
willChangeSplice(h, n, index, removedCount, added) ==
    IF h.failed THEN h
    ELSE IF assertWritable(h, n).failed THEN Fail(h)
    ELSE updatePaths(
           reconcileArrayChildren(h, n, subType(h.type[n]),
               SubSeq(getChildren(h, n), index + 1, index + removedCount), added,
               [i \in 1..Len(added) |-> index + i - 1]),
           n, getChildren(h, n), index + removedCount + 1, Len(added) - removedCount)

\* ArrayType.didChange, case 'splice'
RECURSIVE emitRemoves(_, _, _, _)
emitRemoves(h, n, i, index) ==
    IF i < index \/ h.failed THEN h
    ELSE emitRemoves(emitPatch(h, [op |-> "remove", path |-> ToStr(i), value |-> Undefined], n),
                     n, i - 1, index)

RECURSIVE emitAdds(_, _, _, _, _)
emitAdds(h, n, i, index, addedCount) ==
    IF i >= addedCount \/ h.failed THEN h
    ELSE IF ~h.isAlive[n] \/ index + i >= Len(h.storedItems[n]) THEN Fail(h)
    ELSE emitAdds(emitPatch(h, [op |-> "add", path |-> ToStr(index + i),
                                value |-> getSnapshot(h, h.storedItems[n][index + i + 1])], n),
                  n, i + 1, index, addedCount)

\* didChange, case 'splice', with its two loops in the other order
didChangeSpliceAddsFirst(h, n, index, removedCount, addedCount) ==
    emitRemoves(emitAdds(h, n, 0, index, addedCount), n, index + removedCount - 1, index)

\* ArrayType.didChange, case 'splice'
didChangeSplice(h, n, index, removedCount, addedCount) ==
    emitAdds(emitRemoves(h, n, index + removedCount - 1, index), n, 0, index, addedCount)

Min(a, b) == IF a < b THEN a ELSE b
Max(a, b) == IF a > b THEN a ELSE b

\* the observable array after its interceptor returned: the values change
\* and the observers (didChange, once registered) are notified
spliceValues(h, n, index, deleteCount, observed) ==
    IF h.failed THEN h
    ELSE IF observed /\ (deleteCount # 0 \/ Len(h.res) # 0)
      THEN didChangeSplice(
             [h EXCEPT !.storedItems[n] =
                 SubSeq(@, 1, index) \o h.res \o SubSeq(@, index + deleteCount + 1, Len(@))],
             n, index, deleteCount, Len(h.res))
    ELSE [h EXCEPT !.storedItems[n] =
             SubSeq(@, 1, index) \o h.res \o SubSeq(@, index + deleteCount + 1, Len(@))]

clampIndex(index, length) ==
    IF index > length THEN length
    ELSE IF index < 0 THEN Max(0, length + index) ELSE index

\* observable array splice: clamp, intercept (willChange), change, notify
spliceWithArray(h, n, index, deleteCount, newItems, observed) ==
    IF h.failed THEN h
    ELSE spliceValues(
           willChangeSplice(h, n, clampIndex(index, Len(h.storedItems[n])),
               Max(0, Min(deleteCount,
                          Len(h.storedItems[n]) - clampIndex(index, Len(h.storedItems[n])))),
               newItems),
           n, clampIndex(index, Len(h.storedItems[n])),
           Max(0, Min(deleteCount,
                      Len(h.storedItems[n]) - clampIndex(index, Len(h.storedItems[n])))),
           observed)

\* ArrayType.applySnapshot: typecheck, then target.replace(snapshot) in a
\* pseudo action
\* ArrayType.applySnapshot without its typecheck
arrayApplySnapshotUnchecked(h, n, v, observed) ==
    IF h.failed THEN h
    ELSE closePseudoAction(
           spliceWithArray(openPseudoAction(h, n), n, 0, Len(h.storedItems[n]), v.items,
                           observed),
           n, h.isRunningAction[n])

\* ArrayType.applySnapshot: typecheck, then replace inside a pseudo action
arrayApplySnapshot(h, n, v, observed) ==
    IF h.failed THEN h
    ELSE IF ~isValidSnapshot(h, h.type[n], v) THEN Fail(h)
    ELSE closePseudoAction(
           spliceWithArray(openPseudoAction(h, n), n, 0, Len(h.storedItems[n]), v.items,
                           observed),
           n, h.isRunningAction[n])

\* node.applySnapshot(snapshot) = node.type.applySnapshot(node, snapshot)
applySnapshot(h, n, v, observed) ==
    IF h.failed THEN h
    ELSE IF h.type[n] \in ArrayTypes THEN arrayApplySnapshot(h, n, v, observed)
    ELSE IF h.type[n] = "model" THEN modelApplySnapshot(h, n, v, observed)
    ELSE Fail(h)

\* -------------------------------------------------------- array index set
\* change.newValue === change.object[change.index]: the value of the child
\* there is the live node itself, or the primitive a scalar child holds
sameValue(h, old, newValue) ==
    /\ h.isAlive[old]
    /\ IF isStateTreeNode(h, old) THEN newValue = NodeV(old)
       ELSE newValue.k \in {"str", "frz"} /\ newValue.s = h.storedScalar[old]

\* ArrayType.willChange, case 'update'; res = <<the node to store>>, or <<>>
\* when the interceptor returned null (the value is the one already there)
willChangeUpdate(h, n, index, newValue) ==
    IF h.failed THEN h
    ELSE IF assertWritable(h, n).failed THEN Fail(h)
    ELSE IF sameValue(h, getChildren(h, n)[index + 1], newValue) THEN [h EXCEPT !.res = <<>>]
    ELSE reconcileArrayChildren(h, n, subType(h.type[n]), <<getChildren(h, n)[index + 1]>>,
                                <<newValue>>, <<index>>)

\* node.getChildNode(subpath) of an array node
getChildNode(h, n, key) ==
    IF h.failed THEN h
    ELSE IF assertAlive(h, n).failed \/ h.type[n] \notin ArrayTypes THEN Fail(h)
    ELSE IF IsIndex(key) /\ ParseInt(key) < Len(h.storedItems[n])
      THEN IF ParseInt(key) >= 0
             THEN [h EXCEPT !.ret = h.storedItems[n][ParseInt(key) + 1]]
           ELSE [h EXCEPT !.ret = NoNode]
    ELSE Fail(h)

\* the replace patch of didChange, for the child getChildNode returned
emitReplace(h, n, index) ==
    IF h.failed THEN h
    ELSE emitPatch(h, [op |-> "replace", path |-> ToStr(index),
                       value |-> getSnapshot(h, h.ret)], n)

\* ArrayType.didChange, case 'update'
didChangeUpdate(h, n, index) == emitReplace(getChildNode(h, n, ToStr(index)), n, index)

\* the observable array after the interceptor of an update returned
setValue(h, n, index) ==
    IF h.failed \/ h.res = <<>> THEN h
    ELSE IF h.res[1] = h.storedItems[n][index + 1] THEN h
    ELSE didChangeUpdate([h EXCEPT !.storedItems[n][index + 1] = h.res[1]], n, index)

\* observable array: array[index] = newValue
arraySet(h, n, index, newValue) ==
    IF h.failed THEN h
    ELSE IF index < Len(h.storedItems[n])
      THEN setValue(willChangeUpdate(h, n, index, newValue), n, index)
    ELSE IF index = Len(h.storedItems[n])
      THEN spliceWithArray(h, n, index, 0, <<newValue>>, TRUE)
    ELSE Fail(h)

\* ArrayType.removeChild(node, subpath)
removeChild(h, n, sub) ==
    IF h.failed THEN h
    ELSE IF h.type[n] \in ArrayTypes THEN spliceWithArray(h, n, ParseInt(sub), 1, <<>>, TRUE)
    ELSE Fail(h)

\* ------------------------------------------------------- detach / destroy
\* the last lines of detach
detached(h, n) ==
    IF h.failed THEN h
    ELSE [h EXCEPT !.parent[n] = NoNode, !.subpath[n] = "", !.isDetaching[n] = FALSE]

\* detach without the backup of the environment
detachWithoutBackup(h, n) ==
    IF h.failed THEN h
    ELSE IF ~h.isAlive[n] THEN Fail(h)
    ELSE IF isRoot(h, n) THEN h
    ELSE detached(
           removeChild(
             splitCache([ran(h, "beforeDetach", n) EXCEPT !.isDetaching[n] = TRUE],
                        root(h, n), n),
             h.parent[n], h.subpath[n]),
           n)

detach(h, n) ==
    IF h.failed THEN h
    ELSE IF ~h.isAlive[n] THEN Fail(h)
    ELSE IF isRoot(h, n) THEN h
    ELSE detached(
           removeChild(
             splitCache([ran(h, "beforeDetach", n)
                           EXCEPT !.environment[n] = h.environment[root(h, n)],
                                  !.isDetaching[n] = TRUE],
                        root(h, n), n),
             h.parent[n], h.subpath[n]),
           n)

destroy(h, n) ==
    IF isRoot(h, n) THEN die(h, n)
    ELSE removeChild(h, h.parent[n], h.subpath[n])

\* node.applyPatchLocally(subpath, patch) and ArrayType.applyPatchLocally
\* the applyPatchLocally of a model type: a replace or add of the field
\* `name` assigns it, which emits the replace patch of the field
modelApplyPatchLocally(h, n, sub, patch) ==
    IF h.failed THEN h
    ELSE IF patch.op \notin {"replace", "add"} \/ sub # "name" \/ patch.value.k # "str"
      THEN Fail(h)
    ELSE IF patch.value.s = h.storedScalar[n] THEN h
    ELSE emitPatch([h EXCEPT !.storedScalar[n] = patch.value.s],
                   [op |-> "replace", path |-> "name", value |-> patch.value], n)

applyPatchLocally(h, n, sub, patch) ==
    IF h.failed THEN h
    ELSE IF assertWritable(h, n).failed THEN Fail(h)
    ELSE IF h.type[n] = "model" THEN modelApplyPatchLocally(h, n, sub, patch)
    ELSE IF h.type[n] \notin ArrayTypes THEN Fail(h)
    ELSE IF patch.op = "replace"
      THEN arraySet(h, n, IF sub = "-" THEN Len(h.storedItems[n]) ELSE ParseInt(sub),
                    patch.value)
    ELSE IF patch.op = "add"
      THEN spliceWithArray(h, n, IF sub = "-" THEN Len(h.storedItems[n]) ELSE ParseInt(sub),
                           0, <<patch.value>>, TRUE)
    ELSE IF patch.op = "remove"
      THEN spliceWithArray(h, n, IF sub = "-" THEN Len(h.storedItems[n]) ELSE ParseInt(sub),
                           1, <<>>, TRUE)
    ELSE h

\* node.applyPatch(patch) for a patch whose path is one segment: the node
\* itself is the one the path resolves to
applyPatch(h, n, patch) ==
    closePseudoAction(applyPatchLocally(openPseudoAction(h, n), n, patch.path, patch),
                      n, h.isRunningAction[n])

\* node.resolvePath(pathParts, failIfResolveFails) from part i on, h.ret
\* being `current`; the node reached is h.ret, NoNode standing for undefined.
\* getChildNode leaves `current` undefined for a negative index: then root
\* and parent are read from undefined, which throws
RECURSIVE resolveParts(_, _, _, _)
resolveParts(h, pathParts, i, failIfResolveFails) ==
    IF h.failed \/ i > Len(pathParts) THEN h
    ELSE IF h.ret = NoNode
      THEN IF pathParts[i] = "."
             THEN resolveParts(h, pathParts, i + 1, failIfResolveFails)
           ELSE IF pathParts[i] \in {"", ".."} \/ failIfResolveFails THEN Fail(h)
           ELSE h
    ELSE IF pathParts[i] = ""
      THEN resolveParts([h EXCEPT !.ret = root(h, h.ret)], pathParts, i + 1,
                        failIfResolveFails)
    ELSE IF pathParts[i] = ".."
      THEN IF h.parent[h.ret] = NoNode
             THEN IF failIfResolveFails THEN Fail(h) ELSE [h EXCEPT !.ret = NoNode]
           ELSE resolveParts([h EXCEPT !.ret = h.parent[h.ret]], pathParts, i + 1,
                             failIfResolveFails)
    ELSE IF pathParts[i] = "."
      THEN resolveParts(h, pathParts, i + 1, failIfResolveFails)
    ELSE resolveParts(getChildNode(h, h.ret, pathParts[i]), pathParts, i + 1,
                      failIfResolveFails)

resolvePath(h, n, pathParts, failIfResolveFails) ==
    resolveParts([h EXCEPT !.ret = n], pathParts, 1, failIfResolveFails)

\* tryResolve(target, path): node.resolve(path, false), the path given as
\* its parts
tryResolve(h, n, pathParts) == resolvePath(h, n, pathParts, FALSE)

\* the pseudo action of Node.applyPatch, on the node the path resolved to
applyPatchResolved(h, sub, patch) ==
    IF h.failed THEN h
    ELSE closePseudoAction(applyPatchLocally(openPseudoAction(h, h.ret), h.ret, sub, patch),
                           h.ret, h.isRunningAction[h.ret])

\* node.applyPatch(patch), patch.path being the parts of the path
nodeApplyPatch(h, n, patch) ==
    IF h.failed THEN h
    ELSE applyPatchResolved(
           resolvePath(h, n, SubSeq(patch.path, 1, Len(patch.path) - 1), TRUE),
           patch.path[Len(patch.path)], patch)

\* the patch as the subscriber of node n gets it: its path is source.path
\* without n.path, then the changed key
localizedPatch(p, n) ==
    [op |-> p.op,
     path |-> SubSeq(p.at, Len(p.at) - (CHOOSE k \in 1..Len(p.up) : p.up[k] = n) + 2,
                     Len(p.at)) \o <<p.path>>,
     value |-> p.value]

\* recorder.patches of recordPatches(n): the patches among ps, from the
\* i-th on, that were handed to n
RECURSIVE recordPatches(_, _, _)
recordPatches(ps, n, i) ==
    IF i > Len(ps) THEN <<>>
    ELSE IF \E k \in 1..Len(ps[i].up) : ps[i].up[k] = n
      THEN <<localizedPatch(ps[i], n)>> \o recordPatches(ps, n, i + 1)
    ELSE recordPatches(ps, n, i + 1)

\* recorder.replay(target): applyPatch(target, recorder.patches), from the
\* i-th patch on
RECURSIVE replay(_, _, _, _)
replay(h, target, ps, i) ==
    IF h.failed \/ i > Len(ps) THEN h
    ELSE replay(nodeApplyPatch(h, target, ps[i]), target, ps, i + 1)

\* an action invoked on node act (NoNode: no action): the flag of act is
\* set while fn runs and put back afterwards
beginAction(h, act) ==
    IF act = NoNode THEN h ELSE [h EXCEPT !.isRunningAction[act] = TRUE]

endAction(h, act, was) ==
    IF act = NoNode THEN h ELSE [h EXCEPT !.isRunningAction[act] = was]

wasRunning(act) == IF act = NoNode THEN FALSE ELSE isRunningAction[act]

\* ------------------------------------------------------------------ inputs
PlainValues(t) ==
    CASE t = "string" -> {StrV(x) : x \in Strings}
      [] t = "frozen" -> {FrzV(x) : x \in FrozenValues}
      [] t = "model" -> {ObjV(id, name) : id \in Identifiers, name \in Names}
      [] t = "model[]" ->
            {ArrV(xs) : xs \in SeqsUpTo({ObjV(id, name) : id \in Identifiers, name \in Names},
                                         MaxNested)}
      [] OTHER -> {}

\* The nodes a caller can hold: a tree that a create call returned, dead or
\* alive, and what the arrays of such a tree hold.  A node made inside a call
\* that failed was handed to nobody.
RECURSIVE Referable(_, _)
Referable(n, fuel) ==
    IF parent[n] = NoNode THEN isAlive[n] \/ snapshotProp[n] # NoSnapshot
    ELSE /\ fuel > 0
         /\ \E i \in 1..Len(storedItems[parent[n]]) : storedItems[parent[n]][i] = n
         /\ Referable(parent[n], fuel - 1)

\* the arrays and models a caller can make a call on
TreeNodes ==
    {n \in Nodes : n <= nextNodeId /\ isStateTreeNode(Heap, n) /\ Referable(n, MaxNodeId)}
ArrayNodes == {n \in TreeNodes : type[n] \in ArrayTypes}

\* the values that are live (or dead) tree nodes: arrays and models
TreeNodeValues == {NodeV(m) : m \in TreeNodes}

\* the plain values handed to a mutation: a model snapshot carries NewName
NewName == "y"
NewPlainValues(t) ==
    IF t = "model" THEN {ObjV(id, NewName) : id \in Identifiers}
    ELSE IF t = "model[]"
      THEN {ArrV(xs) : xs \in SeqsUpTo({ObjV(id, NewName) : id \in Identifiers}, MaxNested)}
    ELSE PlainValues(t)

NewValues(t) == NewPlainValues(t) \cup TreeNodeValues

\* the JSON patches for the place sub of an array of items of type t
Patches(t, sub) ==
    {[op |-> "remove", path |-> sub, value |-> Undefined]}
    \cup {[op |-> op, path |-> sub, value |-> v] : op \in {"replace", "add"},
                                                  v \in NewPlainValues(t)}

\* the snapshots a tree is created from
RootSnapshots(t, len) ==
    IF t \in ArrayTypes THEN {ArrV(xs) : xs \in SeqsUpTo(PlainValues(subType(t)), len)}
    ELSE PlainValues(t)

\* the paths handed to resolvePath and tryResolve, as lists of parts
PathParts == SeqsUpTo({"", "..", ".", "0", "1", "-1"}, 2)

\* a call is made directly (NoNode) or from an action invoked on the root
ActionContexts(n) == {NoNode} \cup {a \in {root(Heap, n)} : isAlive[a]}
InAction(n) == IF isAlive[root(Heap, n)] THEN {root(Heap, n)} ELSE {NoNode}

\* ----------------------------------------------------------------- actions
\* a call: its name, the node it is made on, the node whose action makes it
\* (NoNode: none), its arguments, and how it ended
Op(name, n, act, index, count, added) ==
    [op |-> name, node |-> n, act |-> act, index |-> index, count |-> count,
     added |-> added, snapshot |-> Undefined, ok |-> TRUE]

\* the variables hold heap h
HeapIs(h) ==
    /\ nextNodeId = h.nextNodeId
    /\ type = h.type
    /\ parent = h.parent
    /\ subpath = h.subpath
    /\ isAlive = h.isAlive
    /\ isDetaching = h.isDetaching
    /\ isProtectionEnabled = h.isProtectionEnabled
    /\ environment = h.environment
    /\ isRunningAction = h.isRunningAction
    /\ storedItems = h.storedItems
    /\ storedScalar = h.storedScalar
    /\ storedId = h.storedId
    /\ snapshotProp = h.snapshotProp
    /\ identifierCache = h.identifierCache
    /\ patchSubscribers = h.patchSubscribers
    /\ snapshotSubscribers = h.snapshotSubscribers
    /\ disposed = h.disposed

\* type.create returned the tree that heap h holds
Created(h) == ~h.failed /\ HeapIs(h)

\* The reaction the Node constructor sets up on node.snapshot: when the
\* outermost action or transaction has ended, and also when it ended by a
\* throw, the reaction of a node whose snapshot is not the one of heap h0,
\* where the transaction began, calls emitSnapshot once with the snapshot the
\* node has then.  A reaction that was disposed does not run.
snapshotReaction(h0, h, n) ==
    IF ~Exists(h0, n) \/ h.disposed[n] \/ ~h.snapshotSubscribers[n] THEN h
    ELSE IF getSnapshot(h, n) = getSnapshot(h0, n) THEN h
    ELSE [emitSnapshot([h EXCEPT !.failed = FALSE], n, getSnapshot(h, n))
            EXCEPT !.failed = h.failed]

\* the pending reactions run, those of the nodes from n on
RECURSIVE runReactions(_, _, _)
runReactions(h0, h, n) ==
    IF n > MaxNodeId THEN h
    ELSE runReactions(h0, snapshotReaction(h0, h, n), n + 1)

\* the variables take the values of heap h, and the call op is the last
Store(h, op) ==
    /\ ~h.overflow
    /\ calls' = calls + 1
    /\ nextNodeId' = h.nextNodeId
    /\ type' = h.type
    /\ parent' = h.parent
    /\ subpath' = h.subpath
    /\ isAlive' = h.isAlive
    /\ isDetaching' = h.isDetaching
    /\ isProtectionEnabled' = h.isProtectionEnabled
    /\ environment' = h.environment
    /\ isRunningAction' = h.isRunningAction
    /\ storedItems' = h.storedItems
    /\ storedScalar' = h.storedScalar
    /\ storedId' = h.storedId
    /\ snapshotProp' = h.snapshotProp
    /\ identifierCache' = h.identifierCache
    /\ patchSubscribers' = h.patchSubscribers
    /\ snapshotSubscribers' = h.snapshotSubscribers
    /\ disposed' = h.disposed
    /\ patches' = h.patches
    /\ hooks' = h.hooks
    /\ lastOp' = [op EXCEPT !.ok = ~h.failed]

\* the call op ends with heap h: its transaction ends and the reactions run
Commit(h, op) == Store(runReactions(Heap, h, 2), op)

EmptyHeap ==
    [nextNodeId |-> 1,
     type |-> [n \in Nodes |-> "none"],
     parent |-> [n \in Nodes |-> NoNode],
     subpath |-> [n \in Nodes |-> ""],
     isAlive |-> [n \in Nodes |-> FALSE],
     isDetaching |-> [n \in Nodes |-> FALSE],
     isProtectionEnabled |-> [n \in Nodes |-> TRUE],
     environment |-> [n \in Nodes |-> FALSE],
     isRunningAction |-> [n \in Nodes |-> FALSE],
     storedItems |-> [n \in Nodes |-> <<>>],
     storedScalar |-> [n \in Nodes |-> ""],
     storedId |-> [n \in Nodes |-> 0],
     snapshotProp |-> [n \in Nodes |-> NoSnapshot],
     identifierCache |-> [n \in Nodes |-> NoCache],
     patchSubscribers |-> [n \in Nodes |-> FALSE],
     snapshotSubscribers |-> [n \in Nodes |-> FALSE],
     disposed |-> [n \in Nodes |-> FALSE],
     patches |-> <<>>, hooks |-> <<>>, mutation |-> 0,
     failed |-> FALSE, overflow |-> FALSE, ret |-> NoNode, res |-> <<>>]

\* The state after the first tree of an application was created: an array
\* of one of the types in T, from any snapshot of at most MaxAdded items,
\* with an environment when env is TRUE.
InitWith(T, env) ==
    \E t \in T \cap ArrayTypes : \E v \in RootSnapshots(t, MaxAdded) :
      /\ Created(instantiate(EmptyHeap, t, NoNode, "", env, v))
      /\ patches = <<>>
      /\ hooks = <<>>
      /\ lastOp = Op("create", 2, NoNode, 0, 0, <<v>>)
      /\ calls = 0

InitOf(T) == InitWith(T, FALSE)

\* type.create(snapshot, environment) of a further tree
Create(T, Envs) ==
    /\ calls < MaxCalls
    /\ \E t \in T, env \in Envs :
         \E v \in RootSnapshots(t, MaxNested) :
           Commit(instantiate(Heap, t, NoNode, "", env, v),
                  Op("create", nextNodeId + 1, NoNode, 0, 0, <<v>>))

\* array[index] = value
Update ==
    /\ calls < MaxCalls
    /\ \E n \in ArrayNodes : \E act \in InAction(n) :
         \E index \in 0..Len(storedItems[n]), v \in NewValues(subType(type[n])) :
           Commit(endAction(arraySet(beginAction(Heap, act), n, index, v), act,
                            wasRunning(act)),
                  Op("update", n, act, index, 1, <<v>>))

\* values that are not of type t: an array with an item that is a string or
\* a tree node, whatever the type of the items
IllTypedValues(t) ==
    IF t \in ArrayTypes THEN {ArrV(<<x>>) : x \in {StrV("a")} \cup TreeNodeValues}
    ELSE {}

\* array[index] = value, the value being of the type of the items or not
UpdateWithAny ==
    /\ calls < MaxCalls
    /\ \E n \in ArrayNodes : \E act \in InAction(n) :
         \E index \in 0..Len(storedItems[n]),
            v \in NewValues(subType(type[n])) \cup IllTypedValues(subType(type[n])) :
           Commit(endAction(arraySet(beginAction(Heap, act), n, index, v), act,
                            wasRunning(act)),
                  Op("update", n, act, index, 1, <<v>>))

\* array.splice(index, removedCount, ...added)
Splice ==
    /\ calls < MaxCalls
    /\ \E n \in ArrayNodes : \E act \in InAction(n) :
         \E index \in 0..Len(storedItems[n]) :
           \E removedCount \in 0..(Len(storedItems[n]) - index),
              added \in SeqsUpTo(NewValues(subType(type[n])), MaxAdded) :
             Commit(endAction(spliceWithArray(beginAction(Heap, act), n, index,
                                              removedCount, added, TRUE),
                              act, wasRunning(act)),
                    Op("splice", n, act, index, removedCount, added))

\* snapshots that do not conform to type t: a value that is no array or no
\* object, and an array with an item that is not of the type of the items
InvalidSnapshots(t) ==
    {StrV("a")} \cup
    (IF t \in ArrayTypes
       THEN {ArrV(<<x>>) : x \in {x \in {StrV("a"), ObjV(1, NewName)} :
                                    ~isValidSnapshot(Heap, subType(t), x)
                                    /\ subType(t) # "frozen"}}
     ELSE {ArrV(<<>>)})

\* applySnapshot(target, snapshot)
ApplySnapshot ==
    /\ calls < MaxCalls
    /\ \E n \in TreeNodes :
         \E v \in InvalidSnapshots(type[n]) \cup
                  (IF type[n] \in ArrayTypes
                     THEN {ArrV(xs) : xs \in SeqsUpTo(NewValues(subType(type[n])), MaxAdded)}
                   ELSE {x \in NewPlainValues("model") : x.n = storedId[n]}) :
           Commit(applySnapshot(Heap, n, v, TRUE),
                  [Op("applySnapshot", n, NoNode, 0, Len(storedItems[n]), v.items)
                     EXCEPT !.snapshot = v])

\* applyPatch(target, patch), the path of the patch naming a place of target
ApplyPatch ==
    /\ calls < MaxCalls
    /\ \E n \in ArrayNodes : \E index \in 0..Len(storedItems[n]) :
         \E patch \in Patches(subType(type[n]), ToStr(index)) :
           Commit(applyPatch(Heap, n, patch),
                  Op("applyPatch", n, NoNode, index, IF patch.op = "add" THEN 0 ELSE 1,
                     IF patch.op = "remove" THEN <<>> ELSE <<patch.value>>))

\* applyPatch(target, patch) with a value that is not of the type of the
\* items: an array that holds a string
ApplyPatchWithAny ==
    /\ calls < MaxCalls
    /\ \E n \in ArrayNodes : \E index \in 0..Len(storedItems[n]) :
         \E op \in {"replace", "add"},
            v \in IllTypedValues(subType(type[n])) \ {ArrV(<<x>>) : x \in TreeNodeValues} :
           Commit(applyPatch(Heap, n, [op |-> op, path |-> ToStr(index), value |-> v]),
                  Op("applyPatch", n, NoNode, index, IF op = "add" THEN 0 ELSE 1, <<v>>))

\* detach(thing)
Detach ==
    /\ calls < MaxCalls
    /\ \E n \in TreeNodes : \E act \in ActionContexts(n) :
         Commit(endAction(detach(beginAction(Heap, act), n), act, wasRunning(act)),
                Op("detach", n, act, 0, 0, <<>>))

\* destroy(thing)
Destroy ==
    /\ calls < MaxCalls
    /\ \E n \in TreeNodes : \E act \in ActionContexts(n) :
         Commit(endAction(destroy(beginAction(Heap, act), n), act, wasRunning(act)),
                Op("destroy", n, act, 0, 0, <<>>))

\* protect(target) / unprotect(target)
Protect ==
    /\ calls < MaxCalls
    /\ \E n \in TreeNodes :
         Commit(IF isRoot(Heap, n) THEN [Heap EXCEPT !.isProtectionEnabled[n] = TRUE]
                ELSE Fail(Heap),
                Op("protect", n, NoNode, 0, 0, <<>>))

Unprotect ==
    /\ calls < MaxCalls
    /\ \E n \in TreeNodes :
         Commit(IF isRoot(Heap, n) THEN [Heap EXCEPT !.isProtectionEnabled[n] = FALSE]
                ELSE Fail(Heap),
                Op("unprotect", n, NoNode, 0, 0, <<>>))

\* a call is made directly (NoNode) or from an action invoked on the node
\* itself or on one of its ancestors
Callers(n) == {NoNode} \cup {a \in Ancestors(Heap, n) : isAlive[a]}

\* array[index] = value, inside or outside an action
UpdateAnywhere ==
    /\ calls < MaxCalls
    /\ \E n \in ArrayNodes : \E act \in Callers(n) :
         \E index \in 0..Len(storedItems[n]), v \in NewValues(subType(type[n])) :
           Commit(endAction(arraySet(beginAction(Heap, act), n, index, v), act,
                            wasRunning(act)),
                  Op("update", n, act, index, 1, <<v>>))

\* array.splice(index, removedCount, ...added), inside or outside an action
SpliceAnywhere ==
    /\ calls < MaxCalls
    /\ \E n \in ArrayNodes : \E act \in Callers(n) :
         \E index \in 0..Len(storedItems[n]) :
           \E removedCount \in 0..(Len(storedItems[n]) - index),
              added \in SeqsUpTo(NewValues(subType(type[n])), MaxDirect) :
             Commit(endAction(spliceWithArray(beginAction(Heap, act), n, index,
                                              removedCount, added, TRUE),
                              act, wasRunning(act)),
                    Op("splice", n, act, index, removedCount, added))

\* onSnapshot(target, callback)
OnSnapshot ==
    /\ calls < MaxCalls
    /\ \E n \in TreeNodes :
         Commit([Heap EXCEPT !.snapshotSubscribers[n] = TRUE],
                Op("onSnapshot", n, NoNode, 0, 0, <<>>))

\* onPatch(target, callback); subscribing changes no tree and is not counted
\* among the calls
OnPatch ==
    /\ calls < MaxCalls
    /\ \E n \in TreeNodes :
         /\ isAlive[n]
         /\ ~patchSubscribers[n]
         /\ patchSubscribers' = [patchSubscribers EXCEPT ![n] = TRUE]
         /\ lastOp' = Op("onPatch", n, NoNode, 0, 0, <<>>)
    /\ patches' = <<>>
    /\ hooks' = <<>>
    /\ UNCHANGED <<nextNodeId, type, parent, subpath, isAlive, isDetaching,
                   isProtectionEnabled, environment, isRunningAction, storedItems,
                   storedScalar, storedId, snapshotProp, identifierCache,
                   snapshotSubscribers, disposed, calls>>

\* the mutations an action makes on array n: updates with a plain value and
\* splices that insert one plain value or remove one child
ActionMutations(n) ==
    {[kind |-> "update", index |-> i, count |-> 1, added |-> <<v>>] :
        i \in 0..Len(storedItems[n]), v \in NewPlainValues(subType(type[n]))}
    \cup
    {m \in {[kind |-> "splice", index |-> i, count |-> c, added |-> xs] :
               i \in 0..Len(storedItems[n]), c \in 0..1,
               xs \in SeqsUpTo(NewPlainValues(subType(type[n])), MaxDirect)} :
        m.count + Len(m.added) = 1}

\* the k-th mutation of the running action, made on array n
mutate(h, n, m, k) ==
    IF h.failed THEN h
    ELSE IF m.kind = "update"
      THEN arraySet([h EXCEPT !.mutation = k], n, m.index, m.added[1])
    ELSE spliceWithArray([h EXCEPT !.mutation = k], n, m.index, m.count, m.added, TRUE)

\* the action returns
returnFrom(h) == [h EXCEPT !.mutation = 0]

\* an action invoked on the root that makes two mutations on array n
RunAction ==
    /\ calls < MaxCalls
    /\ \E n \in ArrayNodes : \E act \in InAction(n) :
         \E m1 \in ActionMutations(n), m2 \in ActionMutations(n) :
           Commit(endAction(returnFrom(mutate(mutate(beginAction(Heap, act), n, m1, 1),
                                              n, m2, 2)),
                            act, wasRunning(act)),
                  Op("action", n, act, 0, 0, <<>>))

\* An application whose types are model and model[]
ModelTypes == {"model[]", "model"}

Init == InitOf(ModelTypes)

Next ==
    \/ Create(ModelTypes, {FALSE})
    \/ Update
    \/ Splice
    \/ ApplySnapshot
    \/ ApplyPatch
    \/ Detach
    \/ Destroy

Spec == Init /\ [][Next]_vars

\* An application whose types are arrays of strings and of frozen values
ScalarArrayTypes == {"string[]", "frozen[]"}

InitScalar == InitOf(ScalarArrayTypes)

NextScalar ==
    \/ Create(ScalarArrayTypes, {FALSE})
    \/ Update
    \/ Splice
    \/ ApplySnapshot
    \/ ApplyPatch
    \/ Detach
    \/ Destroy

SpecScalar == InitScalar /\ [][NextScalar]_vars

\* An application whose types are model, model[] and model[][]
NestedTypes == {"model[][]", "model[]"}

InitNested == InitOf({"model[][]"})

NextNested ==
    \/ Create(NestedTypes, {FALSE})
    \/ Update
    \/ Splice
    \/ ApplySnapshot
    \/ ApplyPatch
    \/ Detach
    \/ Destroy

SpecNested == InitNested /\ [][NextNested]_vars

\* The nested application with protect and unprotect, its arrays mutated
\* inside and outside actions
NextProtect ==
    \/ UpdateAnywhere
    \/ SpliceAnywhere
    \/ ApplySnapshot
    \/ ApplyPatch
    \/ ApplyPatchWithAny
    \/ Detach
    \/ Destroy
    \/ Protect
    \/ Unprotect

SpecProtect == InitNested /\ [][NextProtect]_vars

\* The application of models with snapshot subscribers and actions that
\* make two mutations
NextAction ==
    \/ OnSnapshot
    \/ RunAction
    \/ Destroy

SpecAction == Init /\ [][NextAction]_vars

\* The application of models, its trees created with or without an
\* environment
InitEnv == \E env \in BOOLEAN : InitWith(ModelTypes, env)

NextEnv ==
    \/ Create(ModelTypes, BOOLEAN)
    \/ Update
    \/ Detach

SpecEnv == InitEnv /\ [][NextEnv]_vars

\* The nested application, its arrays assigned values of any type
NextCreate ==
    \/ Create(NestedTypes, {FALSE})
    \/ UpdateWithAny
    \/ Detach

SpecCreate == InitNested /\ [][NextCreate]_vars

\* The nested application with patch subscribers
NextPatch ==
    \/ OnPatch
    \/ Update
    \/ ApplyPatch
    \/ Destroy

SpecPatch == InitNested /\ [][NextPatch]_vars

\* -------------------------------------------------------------- properties
Allocated == {n \in Nodes : n <= nextNodeId}

\* the indices (1-based) of array a that hold node m
Occurrences(a, m) == {i \in 1..Len(storedItems[a]) : storedItems[a][i] = m}

\* the old children the call op replaces
ReplacedNodes(op) ==
    SubSeq(storedItems[op.node], op.index + 1,
           Min(op.index + op.count, Len(storedItems[op.node])))

\* the i-th new value of call op is a live node that the array of the call
\* holds inside the replaced range and that no earlier new value of the call
\* has claimed, as the node itself or as the candidate of a snapshot
Reusable(op, i) ==
    /\ parent[op.added[i].n] = op.node
    /\ \E k \in 1..Len(ReplacedNodes(op)) : ReplacedNodes(op)[k] = op.added[i].n
    /\ \A j \in 1..(i - 1) :
          /\ op.added[j] # op.added[i]
          /\ findReconcilationCandidates(Heap, ReplacedNodes(op), op.added[j]) # op.added[i].n

Mutations == {"update", "splice", "applySnapshot", "applyPatch"}

\* C1: a call that inserts or assigns into an array a live node that already
\* has a parent fails, unless the node is a child of that same array inside
\* the replaced index range and no earlier value of the call has claimed it;
\* so only a node that is a root when the call is made can be absorbed.
C1_ParentedNodeIsRejected ==
    [][\A i \in 1..Len(lastOp'.added) :
          (/\ lastOp'.op \in Mutations
           /\ lastOp'.added[i].k = "node"
           /\ isAlive[lastOp'.added[i].n]
           /\ parent[lastOp'.added[i].n] # NoNode
           /\ ~Reusable(lastOp', i))
          => ~lastOp'.ok]_vars

\* a splice of one live node that is a child of another live array was
\* made and failed
C1_Witness ==
    /\ lastOp.op = "splice"
    /\ ~lastOp.ok
    /\ isAlive[lastOp.node]
    /\ Len(lastOp.added) = 1
    /\ lastOp.added[1].k = "node"
    /\ isAlive[lastOp.added[1].n]
    /\ parent[lastOp.added[1].n] \notin {NoNode, lastOp.node}

\* the places node m lives at: pairs of an array and an index
Places(m) == {<<a, i>> \in ArrayNodes \X (1..MaxNodeId) : i \in Occurrences(a, m)}

\* C2: every node lives at exactly one place at most: it is at no two
\* indices of an array and in no two child lists, after any sequence of
\* update, splice, applySnapshot, applyPatch, detach and destroy calls.
C2_NodeLivesAtOnePlace == \A m \in Allocated : Cardinality(Places(m)) <= 1

\* C3: one tree never holds two distinct live nodes that carry the same
\* identifier attribute and an equal identifier.
C3_IdentifierIsUniqueInTree ==
    \A m1, m2 \in Allocated :
        (/\ m1 # m2
         /\ isAlive[m1] /\ isAlive[m2]
         /\ identifierAttribute(Heap, m1) # ""
         /\ identifierAttribute(Heap, m1) = identifierAttribute(Heap, m2)
         /\ root(Heap, m1) = root(Heap, m2))
        => identifier(Heap, m1) # identifier(Heap, m2)

\* the nodes reached from n by one or more parent links
RECURSIVE ParentsFrom(_, _)
ParentsFrom(n, fuel) ==
    IF parent[n] = NoNode \/ fuel = 0 THEN {}
    ELSE {parent[n]} \cup ParentsFrom(parent[n], fuel - 1)

Acyclic == \A n \in Allocated : n \notin ParentsFrom(n, MaxNodeId)

\* C4: the parent links never form a cycle, and a call that inserts into an
\* array a root that is the array itself or one of its ancestors fails.
C4_NoCycles ==
    /\ []Acyclic
    /\ [][\A i \in 1..Len(lastOp'.added) :
             (/\ lastOp'.op \in Mutations
              /\ lastOp'.added[i].k = "node"
              /\ parent[lastOp'.added[i].n] = NoNode
              /\ lastOp'.added[i].n \in Ancestors(Heap, lastOp'.node))
             => ~lastOp'.ok]_vars

\* a live root was spliced into a live array that is its descendant, and
\* the call failed
C4_Witness ==
    /\ lastOp.op = "splice"
    /\ ~lastOp.ok
    /\ isAlive[lastOp.node]
    /\ Len(lastOp.added) = 1
    /\ lastOp.added[1].k = "node"
    /\ isAlive[lastOp.added[1].n]
    /\ parent[lastOp.added[1].n] = NoNode
    /\ lastOp.added[1].n # lastOp.node
    /\ lastOp.added[1].n \in Ancestors(Heap, lastOp.node)

\* the nodes an array holds, directly or through arrays it holds
RECURSIVE Held(_, _)
Held(n, fuel) ==
    IF fuel = 0 THEN {}
    ELSE UNION {{storedItems[n][i]} \cup Held(storedItems[n][i], fuel - 1) :
                  i \in 1..Len(storedItems[n])}

\* C5: after die(n), made by destroying the root n, n is dead and so is
\* every node of its subtree, of whatever kind.
C5_SubtreeIsDead ==
    (lastOp.op = "destroy" /\ lastOp.ok)
        => \A m \in {lastOp.node} \cup Held(lastOp.node, MaxNodeId) : ~isAlive[m]

\* C6: when a node dies its snapshot is the one it had right before, and
\* the snapshot of a dead node never changes.
C6_LastSnapshotIsKept ==
    [][\A m \in Allocated :
          (~isAlive'[m] /\ isStateTreeNode(Heap, m))
              => getSnapshot(Heap', m) = getSnapshot(Heap, m)]_vars

\* an array of at least one child was destroyed and its snapshot is that array
C6_Witness ==
    /\ lastOp.op = "destroy"
    /\ lastOp.ok
    /\ ~isAlive[lastOp.node]
    /\ getSnapshot(Heap, lastOp.node).k = "arr"
    /\ Len(getSnapshot(Heap, lastOp.node).items) > 0
    /\ \A i \in 1..Len(storedItems[lastOp.node]) : ~isAlive[storedItems[lastOp.node][i]]

\* C7: a dead node never becomes alive again; a call that mutates a dead
\* array or applies a snapshot to a dead node fails and leaves its children
\* as they are, its children cannot be read, and a call that inserts a dead
\* node into an array fails and leaves the array as it is.
C7_DeadStaysDead ==
    [][\A m \in Allocated :
          ~isAlive[m] =>
            /\ ~isAlive'[m]
            /\ isStateTreeNode(Heap, m) => getChildNode(Heap, m, "0").failed
            /\ (lastOp'.op \in Mutations /\ lastOp'.node = m)
                  => ~lastOp'.ok /\ storedItems'[m] = storedItems[m]
            /\ (lastOp'.op \in Mutations
                /\ \E i \in 1..Len(lastOp'.added) : lastOp'.added[i] = NodeV(m))
                  => ~lastOp'.ok /\ storedItems'[lastOp'.node] = storedItems[lastOp'.node]]_vars

\* a dead node was spliced into a live array inside an action, and the
\* call failed
C7_Witness ==
    /\ lastOp.op = "splice"
    /\ ~lastOp.ok
    /\ isAlive[lastOp.node]
    /\ Len(lastOp.added) = 1
    /\ lastOp.added[1].k = "node"
    /\ ~isAlive[lastOp.added[1].n]
    /\ Occurrences(lastOp.node, lastOp.added[1].n) = {}

\* C8: die() on a node that is dead already does not fail and changes
\* nothing.
C8_DieIsIdempotent ==
    \A m \in TreeNodes : ~isAlive[m] => die(Heap, m) = Heap

\* the children below n are alive and attached below n
RECURSIVE SubtreeAttached(_, _)
SubtreeAttached(n, fuel) ==
    \/ fuel = 0
    \/ \A i \in 1..Len(storedItems[n]) :
          /\ isAlive[storedItems[n][i]]
          /\ parent[storedItems[n][i]] = n
          /\ SubtreeAttached(storedItems[n][i], fuel - 1)

\* C9: after a successful detach(n), n and its descendants are alive and
\* attached below n, n is a root with subpath "" and an empty path, and no
\* array holds n any more.
C9_DetachedIsLiveRoot ==
    (lastOp.op = "detach" /\ lastOp.ok)
        => /\ isAlive[lastOp.node]
           /\ SubtreeAttached(lastOp.node, MaxNodeId)
           /\ parent[lastOp.node] = NoNode
           /\ subpath[lastOp.node] = ""
           /\ path(Heap, lastOp.node) = <<>>
           /\ Places(lastOp.node) = {}

\* C10: destroy(n) of a root kills it; destroy(n) of a child removes n from
\* its parent's children, kills n, re-indexes the siblings that follow and
\* emits one remove patch, for the index n had; outside an action on a
\* protected tree it fails and changes nothing.
C10_DestroyRemovesAndKills ==
    [][lastOp'.op = "destroy" =>
          /\ lastOp'.ok => ~isAlive'[lastOp'.node]
          /\ (lastOp'.ok /\ parent[lastOp'.node] # NoNode) =>
                /\ \A i \in 1..Len(storedItems'[parent[lastOp'.node]]) :
                      storedItems'[parent[lastOp'.node]][i] # lastOp'.node
                /\ \A i \in 1..Len(storedItems'[parent[lastOp'.node]]) :
                      subpath'[storedItems'[parent[lastOp'.node]][i]] = ToStr(i - 1)
                /\ Len(patches') = 1
                /\ patches'[1].op = "remove"
                /\ patches'[1].path = subpath[lastOp'.node]
                /\ patches'[1].source = parent[lastOp'.node]
          /\ (/\ parent[lastOp'.node] # NoNode
              /\ isProtected(Heap, lastOp'.node)
              /\ lastOp'.act = NoNode)
                => /\ ~lastOp'.ok
                   /\ storedItems' = storedItems
                   /\ isAlive' = isAlive
                   /\ parent' = parent
                   /\ subpath' = subpath]_vars

\* the variables a mutation of the tree can change are as before the step
TreeUnchanged ==
    /\ nextNodeId' = nextNodeId
    /\ parent' = parent
    /\ subpath' = subpath
    /\ isAlive' = isAlive
    /\ storedItems' = storedItems
    /\ storedScalar' = storedScalar
    /\ storedId' = storedId
    /\ snapshotProp' = snapshotProp
    /\ identifierCache' = identifierCache

\* C11: on a protected tree an array update or splice made on the root or on
\* a descendant while no action is running fails and leaves the tree
\* unchanged; made with plain values while an action is running on the node
\* or on one of its ancestors it succeeds.
C11_ProtectionLaw ==
    [][(lastOp'.op \in {"update", "splice"} /\ isProtected(Heap, lastOp'.node)) =>
          /\ lastOp'.act = NoNode => (~lastOp'.ok /\ TreeUnchanged)
          /\ (/\ lastOp'.act # NoNode
              /\ isAlive[lastOp'.node]
              /\ \A i \in 1..Len(lastOp'.added) : lastOp'.added[i].k # "node")
                => lastOp'.ok]_vars

\* C12: a tree is not protected by default: the first call made on a
\* freshly created tree, when it is an update or a splice of plain values
\* made outside any action, succeeds.
C12_UnprotectedByDefault ==
    (/\ calls = 1
     /\ lastOp.op \in {"update", "splice"}
     /\ lastOp.act = NoNode
     /\ \A i \in 1..Len(lastOp.added) : lastOp.added[i].k # "node")
        => lastOp.ok

\* the new values of call op are of the type of the array's items
WellTyped(op) ==
    \A i \in 1..Len(op.added) : isValidSnapshot(Heap, subType(type[op.node]), op.added[i])

\* the instance replayed on agrees with node n after the step: the replay
\* did not fail and the snapshot of its root, node 2, is that of n
ReplayAgrees(r, n) ==
    r.overflow \/ (~r.failed /\ getSnapshot(r, 2) = getSnapshot(Heap', n))

\* C13: for every live node n and every successful mutation of n's tree,
\* replaying the patches recorded on n, in recorded order, on a fresh
\* instance created from the snapshot n had before the mutation gives the
\* snapshot n has after it.
C13_PatchReplay ==
    [][(/\ lastOp'.op \in Mutations \cup {"detach", "destroy"}
        /\ lastOp'.ok
        /\ WellTyped(lastOp')) =>
          \A n \in TreeNodes :
             (/\ isAlive[n]
              /\ ~instantiate(EmptyHeap, type[n], NoNode, "", FALSE,
                              getSnapshot(Heap, n)).failed)
             => ReplayAgrees(replay(instantiate(EmptyHeap, type[n], NoNode, "", FALSE,
                                                getSnapshot(Heap, n)),
                                    2, recordPatches(patches', n, 1), 1), n)]_vars

\* the last patches of the call, all but the first k, are those of the
\* splice: the array emitted a remove for index+removedCount-1 down to index,
\* then an add for index up to index+added.length-1 with the snapshot of the
\* child now at that index
SplicePatchesAfter(k) ==
    /\ Len(patches) = k + lastOp.count + Len(lastOp.added)
    /\ \A j \in 1..lastOp.count :
          /\ patches[k + j].op = "remove"
          /\ patches[k + j].source = lastOp.node
          /\ patches[k + j].path = ToStr(lastOp.index + lastOp.count - j)
    /\ \A j \in 1..Len(lastOp.added) :
          /\ patches[k + lastOp.count + j].op = "add"
          /\ patches[k + lastOp.count + j].source = lastOp.node
          /\ patches[k + lastOp.count + j].path = ToStr(lastOp.index + j - 1)
          /\ patches[k + lastOp.count + j].value =
                getSnapshot(Heap, storedItems[lastOp.node][lastOp.index + j])

\* C14: a successful splice(index, removedCount, added) emits exactly
\* removedCount remove patches, for index+removedCount-1 down to index, then
\* exactly added.length add patches, for index up to index+added.length-1,
\* each with the snapshot of the new child at that index, and nothing else.
C14_SpliceEmitsOnly ==
    (lastOp.op = "splice" /\ lastOp.ok) => SplicePatchesAfter(0)

\* C14, amended: the array emits exactly those patches, removes before adds;
\* what else the splice emits comes before them and is the replace patch of
\* a child that was reused for a snapshot and is now in the added range.
C14_SplicePatches ==
    (lastOp.op = "splice" /\ lastOp.ok) =>
        /\ Len(patches) >= lastOp.count + Len(lastOp.added)
        /\ SplicePatchesAfter(Len(patches) - lastOp.count - Len(lastOp.added))
        /\ \A j \in 1..(Len(patches) - lastOp.count - Len(lastOp.added)) :
              /\ patches[j].op = "replace"
              /\ \E i \in 1..Len(lastOp.added) :
                    /\ lastOp.added[i].k = "obj"
                    /\ storedItems[lastOp.node][lastOp.index + i] = patches[j].source

\* a splice removed one child and added two, one of them a snapshot that a
\* removed child was reused for
C14_Witness ==
    /\ lastOp.op = "splice"
    /\ lastOp.ok
    /\ lastOp.count = 1
    /\ Len(lastOp.added) = 2
    /\ Len(patches) = 4
    /\ patches[1].op = "replace"
    /\ patches[2].op = "remove"
    /\ patches[4].op = "add"

\* the live children of array a that carry identifier id
ChildrenWithIdentifier(a, id) ==
    {storedItems[a][j] : j \in {j \in 1..Len(storedItems[a]) :
                                  /\ isAlive[storedItems[a][j]]
                                  /\ identifierAttribute(Heap, storedItems[a][j]) # ""
                                  /\ identifier(Heap, storedItems[a][j]) = id}}

\* C15: a successful update of the element at index i with a snapshot that
\* carries the identifier of an old element of the array, at index i or at
\* another index, creates no node: the element at i is then an old node with
\* that identifier, holding the new snapshot, its subpath being i.
C15_ReconciliationReuse ==
    [][(/\ lastOp'.op = "update"
        /\ lastOp'.ok
        /\ lastOp'.index < Len(storedItems[lastOp'.node])
        /\ lastOp'.added[1].k = "obj"
        /\ ChildrenWithIdentifier(lastOp'.node, lastOp'.added[1].n) # {})
       => /\ nextNodeId' = nextNodeId
          /\ storedItems'[lastOp'.node][lastOp'.index + 1]
                \in ChildrenWithIdentifier(lastOp'.node, lastOp'.added[1].n)
          /\ getSnapshot(Heap', storedItems'[lastOp'.node][lastOp'.index + 1])
                = lastOp'.added[1]
          /\ subpath'[storedItems'[lastOp'.node][lastOp'.index + 1]]
                = ToStr(lastOp'.index)]_vars

\* applying to node n its own snapshot gave heap r: the call did not fail
\* and the snapshot of n is as before
SnapshotKept(r, n) ==
    r.overflow \/ (~r.failed /\ getSnapshot(r, n) = getSnapshot(Heap, n))

\* C16: the snapshot of a tree that was just created from snapshot s is s,
\* and applying to a live node its own current snapshot leaves its snapshot
\* as it is.
C16_SnapshotRoundTrip ==
    /\ (lastOp.op = "create" /\ lastOp.ok)
          => getSnapshot(Heap, lastOp.node) = lastOp.added[1]
    /\ \A n \in TreeNodes :
          isAlive[n] => SnapshotKept(applySnapshot(Heap, n, getSnapshot(Heap, n), TRUE), n)

\* C17: applySnapshot with a snapshot that does not conform to the type of
\* the node fails before anything is applied: no node is created, children,
\* liveness, parents, subpaths and snapshots are as before, and no patch is
\* emitted.
C17_InvalidSnapshotIsRejected ==
    [][(/\ lastOp'.op = "applySnapshot"
        /\ ~isValidSnapshot(Heap, type[lastOp'.node], lastOp'.snapshot))
       => /\ ~lastOp'.ok
          /\ TreeUnchanged
          /\ \A m \in Allocated : getSnapshot(Heap', m) = getSnapshot(Heap, m)
          /\ patches' = <<>>]_vars

\* a snapshot with an item that is not of the type of the items was applied
\* to a live array that has children, and the call failed
C17_Witness ==
    /\ lastOp.op = "applySnapshot"
    /\ ~lastOp.ok
    /\ isAlive[lastOp.node]
    /\ Len(storedItems[lastOp.node]) > 0
    /\ lastOp.snapshot.k = "arr"
    /\ Len(lastOp.snapshot.items) = 1
    /\ ~isValidSnapshot(Heap, type[lastOp.node], lastOp.snapshot)

\* C18: an update, splice, applySnapshot or applyPatch that fails leaves the
\* tree as before the call: the children of every array are unchanged and
\* every node that existed before the call keeps its parent, its subpath and
\* its liveness.
C18_NoPartialApplication ==
    [][(lastOp'.op \in Mutations /\ ~lastOp'.ok) =>
          /\ storedItems' = storedItems
          /\ \A m \in Allocated :
                /\ parent'[m] = parent[m]
                /\ subpath'[m] = subpath[m]
                /\ isAlive'[m] = isAlive[m]]_vars

\* C19: tryResolve never fails, whatever the path, and after a successful
\* detach of the child that lived at path P of its root, tryResolve(root, P)
\* does not fail and returns undefined while resolvePath(root, P) fails.
C19_TryResolveNeverFails ==
    /\ [](\A n \in TreeNodes : \A pathParts \in PathParts :
             isAlive[n] => ~tryResolve(Heap, n, pathParts).failed)
    /\ [][(lastOp'.op = "detach" /\ lastOp'.ok /\ parent[lastOp'.node] # NoNode) =>
             /\ ~tryResolve(Heap', root(Heap, lastOp'.node), path(Heap, lastOp'.node)).failed
             /\ tryResolve(Heap', root(Heap, lastOp'.node), path(Heap, lastOp'.node)).ret
                   = NoNode
             /\ resolvePath(Heap', root(Heap, lastOp'.node), path(Heap, lastOp'.node),
                            TRUE).failed]_vars

\* C20: in what a call emits, every patch of an action of several mutations
\* is emitted during the mutation that causes it, so before the action
\* returns and in the order of the mutations; the snapshot subscribers of
\* a node are called after the outermost action has returned, after every
\* patch, at most once, and with the snapshot the node has then.
C20_PatchesDuringSnapshotsAfter ==
    \A i \in 1..Len(patches) :
       /\ (lastOp.op = "action" /\ patches[i].op # "snapshot") =>
             /\ patches[i].during \in {1, 2}
             /\ \A j \in 1..(i - 1) :
                   /\ patches[j].op # "snapshot"
                   /\ patches[j].during <= patches[i].during
       /\ patches[i].op = "snapshot" =>
             /\ patches[i].during = 0
             /\ patches[i].value = getSnapshot(Heap, patches[i].source)
             /\ \A j \in 1..Len(patches) :
                   (patches[j].op = "snapshot" /\ patches[j].source = patches[i].source)
                      => j = i

\* an action made two mutations that each emitted a patch, and the snapshot
\* subscriber of the array was then called
C20_Witness ==
    /\ lastOp.op = "action"
    /\ lastOp.ok
    /\ \E i, j, k \in 1..Len(patches) :
          /\ patches[i].op # "snapshot" /\ patches[i].during = 1
          /\ patches[j].op # "snapshot" /\ patches[j].during = 2
          /\ patches[k].op = "snapshot" /\ patches[k].source = lastOp.node

\* node c is the child at index i (0-based) of array p
ChildAt(p, c, i) == i < Len(storedItems[p]) /\ storedItems[p][i + 1] = c

\* C21: in every reachable state a node c is the child at index i of a live
\* array p if and only if c.parent = p and c.subpath = i, and a node that no
\* array contains has no parent.
C21_ParentChildConsistent ==
    /\ \A p \in Allocated, c \in Allocated, i \in 0..(MaxNodeId - 1) :
          (isAlive[p] /\ type[p] \in ArrayTypes)
             => (ChildAt(p, c, i) <=> (parent[c] = p /\ subpath[c] = ToStr(i)))
    /\ \A c \in Allocated :
          (\A p \in Allocated : Occurrences(p, c) = {}) => parent[c] = NoNode


\* the live nodes of the tree of root r that carry an identifier
IdentifiedNodes(r) ==
    {n \in {r} \cup Held(r, MaxNodeId) : isAlive[n] /\ identifierAttribute(Heap, n) # ""}

\* C22: in every reachable state the identifier cache of a live root holds
\* exactly the live, identifier-bearing nodes of the root's tree; dead nodes,
\* detached nodes and nodes created by a call that failed are not in it.
C22_CacheIsExact ==
    \A r \in Allocated :
        (isAlive[r] /\ parent[r] = NoNode /\ isStateTreeNode(Heap, r))
           => /\ identifierCache[r].defined
              /\ identifierCache[r].entries = IdentifiedNodes(r)


\* old child c is claimed by a new value of call op: the value is the node
\* itself or a snapshot that carries its identifier
ClaimedBy(op, c) ==
    \E i \in 1..Len(op.added) :
       \/ op.added[i] = NodeV(c)
       \/ /\ op.added[i].k = "obj"
          /\ identifierAttribute(Heap, c) # ""
          /\ op.added[i].n = identifier(Heap, c)

\* C23: after a successful update, splice or applySnapshot of an array every
\* old child of the replaced range is reused (it is in the new child list,
\* alive and claimed by a new value) or dead, and no child outside the
\* replaced range is killed.
C23_ReplacedIsReusedOrDead ==
    [][(lastOp'.op \in {"update", "splice", "applySnapshot"} /\ lastOp'.ok)
         => \A c \in Allocated :
               /\ (\E k \in 1..Len(ReplacedNodes(lastOp')) : ReplacedNodes(lastOp')[k] = c)
                     => \/ ~isAlive'[c]
                        \/ /\ \E i \in 1..Len(storedItems'[lastOp'.node]) :
                                 storedItems'[lastOp'.node][i] = c
                           /\ ClaimedBy(lastOp', c)
               /\ (/\ Occurrences(lastOp'.node, c) # {}
                   /\ \A k \in 1..Len(ReplacedNodes(lastOp')) : ReplacedNodes(lastOp')[k] # c
                   /\ isAlive[c])
                     => isAlive'[c]]_vars


\* the nodes of the subtree of n as the finalizeDeath steps of the last call
\* found it: n and the nodes below it
Below(n, m) == m = n \/ m \in Held(n, MaxNodeId)

\* C24: die(n), made by destroying the root n, is two-phase over the subtree
\* of n: the disposers and the beforeDestroy hook of every node of the
\* subtree run before any node of the subtree is finalized, and within each
\* phase a node is processed after all of its descendants.
C24_DieIsTwoPhase ==
    [][(lastOp'.op = "destroy" /\ parent[lastOp'.node] = NoNode /\ isAlive[lastOp'.node])
         => /\ \A j \in 1..Len(hooks') : \A m \in Allocated :
                  (hooks'[j].step = "finalizeDeath" /\ Below(lastOp'.node, m))
                     => \E i, k \in 1..(j - 1) :
                           /\ i < k
                           /\ hooks'[i] = [step |-> "disposers", node |-> m]
                           /\ hooks'[k] = [step |-> "beforeDestroy", node |-> m]
            /\ \A j \in 1..Len(hooks') : \A m \in Held(hooks'[j].node, MaxNodeId) :
                  \E i \in 1..(j - 1) : hooks'[i] = [step |-> hooks'[j].step, node |-> m]
            /\ \A m \in Allocated :
                  (Below(lastOp'.node, m) /\ ~isAlive'[m] /\ isAlive[m])
                     => \E j \in 1..Len(hooks') :
                           hooks'[j] = [step |-> "finalizeDeath", node |-> m]]_vars


\* the path of the source of patch p below the k-th node of its chain, then
\* the changed key: "/" before every segment
RECURSIVE Slashed(_)
Slashed(parts) ==
    IF parts = <<>> THEN <<>> ELSE <<"/", Head(parts)>> \o Slashed(Tail(parts))

RelativePath(p, k) == Slashed(SubSeq(p.at, Len(p.at) - k + 2, Len(p.at)) \o <<p.path>>)

\* C25: a patch emitted by a source node is delivered once to the patch
\* subscribers of the source and of each of its ancestors, in the order
\* source, parent, ..., root, each receiver getting the path of the source
\* relative to itself followed by the changed key; no other subscriber is
\* called.
C25_PatchGoesUpTheChain ==
    [][\A i \in 1..Len(patches') :
          patches'[i].op # "snapshot" =>
             /\ patches'[i].up[1] = patches'[i].source
             /\ \A k \in 1..Len(patches'[i].up) :
                   parent[patches'[i].up[k]] =
                      (IF k < Len(patches'[i].up) THEN patches'[i].up[k + 1] ELSE NoNode)
             /\ \A k \in 1..Len(patches'[i].up) :
                   /\ (patchSubscribers'[patches'[i].up[k]])
                         => \E j \in 1..Len(patches'[i].to) :
                               patches'[i].to[j].receiver = patches'[i].up[k]
             /\ \A j \in 1..Len(patches'[i].to) :
                   /\ patchSubscribers[patches'[i].to[j].receiver]
                   /\ \E k \in 1..Len(patches'[i].up) :
                         /\ patches'[i].up[k] = patches'[i].to[j].receiver
                         /\ patches'[i].to[j].path = RelativePath(patches'[i], k)
                   /\ \A j2 \in 1..(j - 1) :
                         \E k, k2 \in 1..Len(patches'[i].up) :
                            /\ k2 < k
                            /\ patches'[i].up[k2] = patches'[i].to[j2].receiver
                            /\ patches'[i].up[k] = patches'[i].to[j].receiver]_vars

\* a patch emitted two levels below the root went to the subscribers of its
\* source and of the root, in this order
C25_Witness ==
    \E i \in 1..Len(patches) :
       /\ Len(patches[i].up) = 3
       /\ Len(patches[i].to) = 2
       /\ patches[i].to[1].receiver = patches[i].source
       /\ patches[i].to[2].receiver = patches[i].up[3]


\* the node that the segments of pathParts, from the i-th on, lead to from
\* node cur: an empty segment leads to the root, ".." to the parent, "." stays
\* and any other segment leads to the child with that key; NoNode when ".."
\* is applied to a root or the named child does not exist
RECURSIVE Reached(_, _, _)
Reached(cur, pathParts, i) ==
    IF cur = NoNode \/ i > Len(pathParts) THEN cur
    ELSE IF pathParts[i] = "" THEN Reached(root(Heap, cur), pathParts, i + 1)
    ELSE IF pathParts[i] = ".." THEN Reached(parent[cur], pathParts, i + 1)
    ELSE IF pathParts[i] = "." THEN Reached(cur, pathParts, i + 1)
    ELSE IF \E k \in 0..(Len(storedItems[cur]) - 1) : ToStr(k) = pathParts[i]
      THEN Reached(storedItems[cur][(CHOOSE k \in 0..(Len(storedItems[cur]) - 1) :
                                        ToStr(k) = pathParts[i]) + 1],
                   pathParts, i + 1)
    ELSE NoNode

\* C26: resolvePath(parts) on a live node walks the segments from left to
\* right and returns the node reached after the last one; it fails exactly
\* when ".." is applied to a root or a named child does not exist.
C26_ResolvePathWalks ==
    \A n \in TreeNodes : \A pathParts \in PathParts :
        isAlive[n] =>
           /\ resolvePath(Heap, n, pathParts, TRUE).failed
                 <=> Reached(n, pathParts, 1) = NoNode
           /\ ~resolvePath(Heap, n, pathParts, TRUE).failed
                 => resolvePath(Heap, n, pathParts, TRUE).ret = Reached(n, pathParts, 1)


\* no node has its running-action flag set
NoActionRunning == \A m \in Allocated : ~isRunningAction[m]

\* the call op is an applySnapshot or applyPatch of plain values that are of
\* the type of the node the call is made on
PlainCall(op) ==
    /\ op.op \in {"applySnapshot", "applyPatch"}
    /\ \A i \in 1..Len(op.added) : op.added[i].k # "node"
    /\ WellTyped(op)
    /\ op.op = "applySnapshot" => isValidSnapshot(Heap, type[op.node], op.snapshot)

\* C27: applySnapshot and applyPatch bypass protection: made with plain
\* values on a live node of a protected tree while no action is running they
\* succeed and emit patches for what they change, and after they return the
\* tree is as protected as before: a direct mutation outside an action still
\* fails.
C27_BypassProtection ==
    [][(/\ PlainCall(lastOp')
        /\ isAlive[lastOp'.node]
        /\ isProtected(Heap, lastOp'.node)
        /\ NoActionRunning)
         => /\ lastOp'.ok
            /\ getSnapshot(Heap', lastOp'.node) # getSnapshot(Heap, lastOp'.node)
                  => patches' # <<>>
            /\ isProtectionEnabled' = isProtectionEnabled
            /\ \A m \in Allocated :
                  (m <= nextNodeId' /\ isAlive'[m] => ~isRunningAction'[m])
            /\ \A m \in Allocated :
                  (isAlive'[m] /\ isProtected(Heap', m)) => assertWritable(Heap', m).failed]_vars


\* the i-th new value of the call made by the step is the live root m
AttachesRoot(i, m) ==
    /\ lastOp'.op \in Mutations
    /\ lastOp'.added[i] = NodeV(m)
    /\ isAlive[m]
    /\ parent[m] = NoNode

\* the live nodes with an identifier in the tree of node n
Identified(n) ==
    {x \in Allocated : isAlive[x] /\ identifierAttribute(Heap, x) # ""
                       /\ root(Heap, x) = root(Heap, n)}

\* C28: a root that carries an environment cannot be attached under any
\* parent: the call fails and the node stays a live root; detach copies the
\* environment of the former root into the detached node; a root without
\* environment, such as a node detached from a tree without environment, can
\* be attached again.
C28_EnvironmentRootStaysRoot ==
    [][/\ \A m \in Allocated : \A i \in 1..Len(lastOp'.added) :
             (AttachesRoot(i, m) /\ environment[m])
                => /\ ~lastOp'.ok
                   /\ isAlive'[m]
                   /\ parent'[m] = NoNode
                   /\ \A a \in Allocated : Occurrences(a, m)' = {}
       /\ (lastOp'.op = "detach" /\ lastOp'.ok /\ parent[lastOp'.node] # NoNode)
             => environment'[lastOp'.node] = environment[root(Heap, lastOp'.node)]
       /\ \A m \in Allocated :
             (/\ lastOp'.op = "update"
              /\ AttachesRoot(1, m)
              /\ ~environment[m]
              /\ isAlive[lastOp'.node]
              /\ lastOp'.act # NoNode
              /\ root(Heap, lastOp'.node) # m
              /\ type[m] = subType(type[lastOp'.node])
              /\ \A x \in Identified(m), y \in Identified(lastOp'.node) :
                    identifier(Heap, x) # identifier(Heap, y))
                => /\ lastOp'.ok
                   /\ parent'[m] = lastOp'.node
                   /\ lastOp'.index < Len(storedItems'[lastOp'.node])
                   /\ storedItems'[lastOp'.node][lastOp'.index + 1] = m]_vars


\* the first of the two children of the first tree, detached from that tree,
\* which has an environment, was assigned into the array again and the call
\* failed
C28_Witness ==
    /\ nextNodeId = 4
    /\ storedItems[2] = <<4>>
    /\ lastOp.op = "update"
    /\ ~lastOp.ok
    /\ lastOp.act # NoNode
    /\ lastOp.added = <<NodeV(3)>>
    /\ type[3] = "model"
    /\ environment[3]
    /\ isAlive[3]
    /\ parent[3] = NoNode


\* the nodes the call of the step created
NewNodes == {m \in Nodes : nextNodeId < m /\ m <= nextNodeId'}

\* C29: when the finalization of a node that createNode makes fails, the
\* call fails and the node is dead from then on; a node createNode returned
\* is alive; a dead node stays dead.
C29_FailedCreateIsDead ==
    [][/\ \A j \in 1..Len(hooks') :
             hooks'[j].step = "sawException"
                => /\ ~lastOp'.ok
                   /\ ~isAlive'[hooks'[j].node]
                   /\ hooks'[j].node \in NewNodes
       /\ \A m \in NewNodes :
             \/ /\ \E j \in 1..Len(hooks') : hooks'[j] = [step |-> "sawException", node |-> m]
                /\ \A j \in 1..Len(hooks') : hooks'[j] # [step |-> "afterCreate", node |-> m]
                /\ ~isAlive'[m]
             \/ /\ \E j \in 1..Len(hooks') : hooks'[j] = [step |-> "afterCreate", node |-> m]
                /\ \A j \in 1..Len(hooks') : hooks'[j] # [step |-> "sawException", node |-> m]
                /\ isAlive'[m]
       /\ \A m \in Allocated : ~isAlive[m] => ~isAlive'[m]]_vars

\* a node was being created from an array that holds a string, its creation
\* failed and the node is dead
C29_Witness ==
    /\ lastOp.op = "update"
    /\ ~lastOp.ok
    /\ \E j \in 1..Len(hooks) :
          /\ hooks[j].step = "sawException"
          /\ ~isAlive[hooks[j].node]
          /\ type[hooks[j].node] \in ArrayTypes


\* C30: between two calls no action or pseudo action is executing, and then
\* the running-action flag of every node is false, also after an applyPatch
\* or applySnapshot that failed; so a direct mutation of a protected tree,
\* made outside any action right after a failed applyPatch, fails.
C30_FlagIsClearBetweenCalls ==
    /\ [](\A m \in Allocated : ~isRunningAction[m])
    /\ [][(/\ lastOp.op = "applyPatch"
           /\ ~lastOp.ok
           /\ lastOp'.op \in {"update", "splice"}
           /\ lastOp'.act = NoNode
           /\ isProtected(Heap, lastOp'.node))
            => ~lastOp'.ok]_vars


\* C31: between calls no node is flagged as detaching, also after a detach
\* that failed; so a failed detach leaves the node attached, and a later
\* destroy of the node kills it.
C31_NoNodeIsDetaching ==
    /\ [](\A n \in Allocated : ~isDetaching[n])
    /\ [][(lastOp'.op = "detach" /\ ~lastOp'.ok)
            => /\ parent'[lastOp'.node] = parent[lastOp'.node]
               /\ identifierCache' = identifierCache]_vars
    /\ [][(lastOp.op = "detach" /\ ~lastOp.ok /\ lastOp'.op = "destroy" /\ lastOp'.ok
           /\ lastOp'.node = lastOp.node)
            => ~isAlive'[lastOp'.node]]_vars


\* the call of the step created node n as a root: it is the tree that
\* type.create made
CreatedAsRoot(n) == lastOp'.op = "create" /\ n = lastOp'.node

\* the positions of the hooks of the call of the step where node n ran step
HookAt(step, n) == {i \in 1..Len(hooks') : hooks'[i] = [step |-> step, node |-> n]}

\* C32: when a subtree is instantiated from a snapshot the hooks fire
\* bottom-up: the afterCreate of a new node fires once, after the afterCreate
\* and afterAttach of all of its descendants; afterAttach fires right after
\* the afterCreate of the node where the node was created with a parent, and
\* never for a node created as a root.
C32_HooksFireBottomUp ==
    [][/\ \A i \in 1..Len(hooks') :
             hooks'[i].step = "afterCreate" => hooks'[i].node \in NewNodes
       /\ \A n \in NewNodes :
             /\ Cardinality(HookAt("afterCreate", n)) <= 1
             /\ \A i \in HookAt("afterCreate", n) :
                   /\ \A m \in Allocated' :
                         (m # n /\ n \in Ancestors(Heap', m))
                            => /\ m \in NewNodes => HookAt("afterCreate", m) # {}
                               /\ \A j \in HookAt("afterCreate", m) \cup HookAt("afterAttach", m) :
                                     j < i
                   /\ IF CreatedAsRoot(n) THEN HookAt("afterAttach", n) = {}
                      ELSE HookAt("afterAttach", n) = {i + 1}
             /\ HookAt("afterCreate", n) = {} => HookAt("afterAttach", n) = {}]_vars

\* a tree of three levels was created: its model and then the array that
\* holds it ran afterCreate and afterAttach, then the root ran afterCreate alone
C32_Witness ==
    /\ lastOp.op = "create"
    /\ lastOp.ok
    /\ type[lastOp.node] = "model[][]"
    /\ Len(storedItems[lastOp.node]) = 1
    /\ Len(storedItems[storedItems[lastOp.node][1]]) = 1
    /\ hooks = <<[step |-> "afterCreate", node |-> storedItems[storedItems[lastOp.node][1]][1]],
                 [step |-> "afterAttach", node |-> storedItems[storedItems[lastOp.node][1]][1]],
                 [step |-> "afterCreate", node |-> storedItems[lastOp.node][1]],
                 [step |-> "afterAttach", node |-> storedItems[lastOp.node][1]],
                 [step |-> "afterCreate", node |-> lastOp.node]>>


\* ------------------------------------------------- adopted roots (protection)
\* unprotect(target) on heap h
unprotect(h, n) ==
    IF h.failed THEN h
    ELSE IF isRoot(h, n) THEN [h EXCEPT !.isProtectionEnabled[n] = FALSE]
    ELSE Fail(h)

\* unprotect(target) is called where the application chose to
unprotectIf(chosen, h, n) == IF chosen THEN unprotect(h, n) ELSE h

\* The state of an application that created an array of arrays (node 2) and
\* a second tree, an array of models (node 3), called unprotect on some of
\* the two roots, and then pushed the second tree into the first inside an
\* action of the first.
InitAdopted ==
    \E v \in RootSnapshots("model[]", MaxNested), first \in BOOLEAN, second \in BOOLEAN :
      /\ Created(
           endAction(
             spliceWithArray(
               beginAction(
                 unprotectIf(first,
                   unprotectIf(second,
                     instantiate(
                       instantiate(EmptyHeap, "model[][]", NoNode, "", FALSE, ArrV(<<>>)),
                       "model[]", NoNode, "", FALSE, v),
                     3),
                   2),
                 2),
               2, 0, 0, <<NodeV(3)>>, TRUE),
             2, FALSE))
      /\ patches = <<>>
      /\ hooks = <<>>
      /\ lastOp = Op("splice", 2, 2, 0, 0, <<NodeV(3)>>)
      /\ calls = 0

NextAdopted ==
    \/ UpdateAnywhere
    \/ Detach
    \/ Protect
    \/ Unprotect

SpecAdopted == InitAdopted /\ [][NextAdopted]_vars

\* the call of the step was protect or unprotect: on a root it sets the flag
\* of that root alone, on another node it fails and no flag changes
FlagSetOnRootOnly ==
    lastOp'.op \in {"protect", "unprotect"}
       => IF isRoot(Heap, lastOp'.node)
            THEN /\ lastOp'.ok
                 /\ isProtectionEnabled' =
                       [isProtectionEnabled EXCEPT ![lastOp'.node] = (lastOp'.op = "protect")]
          ELSE /\ ~lastOp'.ok
               /\ isProtectionEnabled' = isProtectionEnabled

\* no other call changes the flag of a node, and a node is created with
\* the flag enabled
FlagIsKept ==
    /\ lastOp'.op \notin {"protect", "unprotect"}
          => \A m \in Allocated : isProtectionEnabled'[m] = isProtectionEnabled[m]
    /\ \A m \in NewNodes : isProtectionEnabled'[m]

\* whether a node is protected is the flag of its root: a write made on a
\* node of a protected tree while no action runs fails; a root attached by
\* the call is protected as its new root is
ProtectedAsRoot ==
    /\ (/\ lastOp'.op \in {"update", "splice"}
        /\ lastOp'.act = NoNode
        /\ NoActionRunning
        /\ isProtectionEnabled[root(Heap, lastOp'.node)])
          => ~lastOp'.ok
    /\ (/\ lastOp'.op \in {"update", "splice"}
        /\ lastOp'.ok)
          => \A i \in 1..Len(lastOp'.added) :
                (lastOp'.added[i].k = "node" /\ isRoot(Heap, lastOp'.added[i].n))
                   => /\ root(Heap', lastOp'.added[i].n) = root(Heap, lastOp'.node)
                      /\ isProtected(Heap', lastOp'.added[i].n)
                            = isProtectionEnabled[root(Heap, lastOp'.node)]

\* the call of the step detached a node that was not a root
DetachedNow == lastOp'.op = "detach" /\ lastOp'.ok /\ ~isRoot(Heap, lastOp'.node)

====
